---- MODULE Spec2Model ----
(***************************************************************************)
(* Model of the sqld connection worker (sqld/src/database/libsql.rs), the  *)
(* statement classifier and transaction state machine                      *)
(* (sqld/src/query_analysis.rs) and the adapter's result builder           *)
(* (sqld/src/rpc/proxy.rs).                                                *)
(*                                                                         *)
(* The embedded engine (SQLite, reached through rusqlite) is an external   *)
(* collaborator.  It is modelled by what the worker can observe of it: the *)
(* autocommit flag, the committed rows, the rows written by the open       *)
(* transaction, and the frames its WAL commit hands to the shadow log.     *)
(* BEGIN fails inside a transaction, COMMIT and ROLLBACK fail outside one; *)
(* every statement may also fail for a reason of the engine's own.         *)
(***************************************************************************)
EXTENDS Integers, Sequences, FiniteSets, TLC

\* ------------------------------------------------------------- bounds
\* Largest number of requests the caller makes in one behaviour.
MaxCalls == 3
\* Largest number of steps of a program.
MaxSteps == 2
\* Largest configured response size (QueryBuilderConfig.max_size), in units.
MaxResponseSize == 2
\* Largest number of steps in front of the step that carries the Cond tree.
MaxPrefix == 1
\* Largest step index a Cond tree refers to.
MaxCondRef == 1
\* The frame numbers a log gives out stay below MaxFrameNo.
MaxFrameNo == 3
\* LogFile.max_log_frame_count of the model.
MaxLogFrameCount == 1
\* Largest number of compactions in one behaviour.
MaxCompactions == 1
\* Largest number of pages the engine hands to one on_frames call.
MaxBatch == 2

\* ------------------------------------------------- statement classifier
\* The SQL commands of the model; one representative per parsed command.
Sqls == {"BEGIN", "COMMIT", "ROLLBACK", "SELECT", "INSERT", "EXPLAIN"}

StmtKinds == {"TxnBegin", "TxnEnd", "Read", "Write", "Other"}

\* StmtKind::kind
StmtKind_kind(cmd) ==
    CASE cmd = "EXPLAIN" -> "Other"
      [] cmd = "BEGIN" -> "TxnBegin"
      [] cmd \in {"COMMIT", "ROLLBACK"} -> "TxnEnd"
      [] cmd = "INSERT" -> "Write"
      [] cmd = "SELECT" -> "Read"

\* Statement::parse / parse_inner: the Statement built for one command.
Statement_parse(cmd) ==
    [stmt |-> cmd, kind |-> StmtKind_kind(cmd), is_iud |-> cmd = "INSERT",
     is_insert |-> cmd = "INSERT"]

\* ------------------------------------------- transaction state machine
States == {"Init", "Txn", "Invalid"}

\* A step that lets a transaction begin inside a transaction.
State_step_nested_begin(state, kind) ==
    CASE state = "Init" /\ kind = "TxnEnd" -> "Invalid"
      [] state = "Txn" /\ kind = "TxnEnd" -> "Init"
      [] kind \in {"Other", "Write", "Read"} -> state
      [] state = "Invalid" -> "Invalid"
      [] kind = "TxnBegin" -> "Txn"

\* State::step
State_step(state, kind) ==
    CASE (state = "Txn" /\ kind = "TxnBegin") \/ (state = "Init" /\ kind = "TxnEnd")
            -> "Invalid"
      [] state = "Txn" /\ kind = "TxnEnd" -> "Init"
      [] kind \in {"Other", "Write", "Read"} -> state
      [] state = "Invalid" -> "Invalid"
      [] state = "Init" /\ kind = "TxnBegin" -> "Txn"

\* State::reset
State_reset(state) == "Init"

\* final_state: fold State::step over the statements' kinds.
RECURSIVE final_state(_, _)
final_state(state, stmts) ==
    IF stmts = <<>> THEN state
    ELSE final_state(State_step(state, Head(stmts).kind), Tail(stmts))

\* ---------------------------------------------------------------- Cond
NoCond == [t |-> "None"]
CondOk(j) == [t |-> "Ok", step |-> j]
CondErr(j) == [t |-> "Err", step |-> j]
CondNot(c) == [t |-> "Not", cond |-> c]
CondAnd(cs) == [t |-> "And", conds |-> cs]
CondOr(cs) == [t |-> "Or", conds |-> cs]

\* Result<bool>: Ok(b) or Err(InvalidBatchStep(step)).
ROk(b) == [ok |-> TRUE, val |-> b, step |-> 0]
RErr(j) == [ok |-> FALSE, val |-> FALSE, step |-> j]

\* get_step_res: results.get(step).ok_or(InvalidBatchStep(step)); steps
\* are 0-based.
get_step_res(step, results) ==
    IF step < Len(results) THEN ROk(results[step + 1]) ELSE RErr(step)

RECURSIVE eval_cond(_, _)
RECURSIVE try_fold(_, _, _, _)

\* A fold that stops at the first child deciding the value (false under And,
\* true under Or) and leaves the remaining children unevaluated.
try_fold_short_circuit(conds, x, isAnd, results) ==
    IF conds = <<>> \/ x # isAnd THEN ROk(x)
    ELSE LET y == eval_cond(Head(conds), results) IN
         IF ~y.ok THEN y
         ELSE try_fold(Tail(conds),
                       IF isAnd THEN x /\ y.val ELSE x \/ y.val,
                       isAnd, results)

\* conds.iter().try_fold(init, |x, cond| eval_cond(cond, results).map(|y| x op y)):
\* every child is evaluated, in order, until one returns Err; `isAnd` selects
\* x & y, otherwise x | y.
try_fold(conds, x, isAnd, results) ==
    IF conds = <<>> THEN ROk(x)
    ELSE LET y == eval_cond(Head(conds), results) IN
         IF ~y.ok THEN y
         ELSE try_fold(Tail(conds),
                       IF isAnd THEN x /\ y.val ELSE x \/ y.val,
                       isAnd, results)

\* eval_cond
eval_cond(cond, results) ==
    CASE cond.t = "Ok" -> get_step_res(cond.step, results)
      [] cond.t = "Err" ->
            LET r == get_step_res(cond.step, results) IN
            IF r.ok THEN ROk(~r.val) ELSE r
      [] cond.t = "Not" ->
            LET r == eval_cond(cond.cond, results) IN
            IF r.ok THEN ROk(~r.val) ELSE r
      [] cond.t = "And" -> try_fold(cond.conds, TRUE, TRUE, results)
      [] cond.t = "Or" -> try_fold(cond.conds, FALSE, FALSE, results)

\* ------------------------------------------------------------ programs
Step(cmd, c) == [query |-> [stmt |-> Statement_parse(cmd)], cond |-> c]

\* Sequences over S of length 0..n.
SeqsUpTo(S, n) == UNION {[1..k -> S] : k \in 0..n}

\* The programs of the worker specification: every step is unconditional.
Programs == SeqsUpTo({Step(cmd, NoCond) : cmd \in Sqls}, MaxSteps)

\* The Cond trees of the Cond specification: a reference, its negation, and
\* And / Or over zero, one or two references.
CondLeaves == {CondOk(j) : j \in 0..MaxCondRef} \cup {CondErr(j) : j \in 0..MaxCondRef}

CondLists == {<<>>} \cup {<<a>> : a \in CondLeaves} \cup {<<a, b>> : a, b \in CondLeaves}

CondTrees ==
    CondLeaves \cup {CondNot(c) : c \in CondLeaves}
        \cup {CondAnd(cs) : cs \in CondLists} \cup {CondOr(cs) : cs \in CondLists}

\* The programs of the Cond specification: steps that are unconditional, or
\* an Insert that is never enabled (Or of nothing), then one step under a
\* Cond tree.
PrefixSteps ==
    {Step(cmd, NoCond) : cmd \in Sqls} \cup {Step("INSERT", CondOr(<<>>))}

CondPrograms ==
    {Append(prefix, Step(cmd, c)) :
        prefix \in SeqsUpTo(PrefixSteps, MaxPrefix), cmd \in Sqls, c \in CondTrees}

Auths == {"Anonymous", "ReadOnly", "FullAccess"}

\* ------------------------------------------------------------- errors
\* crate::error::Error values the worker produces.
InvalidBatchStep(j) == [code |-> "InvalidBatchStep", step |-> j]
EngineError == [code |-> "LibsqlError", step |-> 0]
LibSqlTxTimeout == [code |-> "LibSqlTxTimeout", step |-> 0]
NotAuthorized == [code |-> "NotAuthorized", step |-> 0]
ResponseTooLarge == [code |-> "ResponseTooLarge", step |-> 0]
Blocked == [code |-> "Blocked", step |-> 0]
\* The reply channel was dropped by a worker that panicked (oneshot RecvError).
RecvError == [code |-> "Internal", step |-> 0]

\* error.to_string().len(), in units of the response budget.
error_size(e) == 1
\* decl_type.len() + name.len() of one column, in the same units.
col_len(col) == 1
\* bincode::serialize(value).len() of one value, in the same units.
data_len(v) == 1

\* ----------------------------------- ExecuteResultBuilder (rpc/proxy.rs)
\* Option<T>: <<>> is None, <<x>> is Some(x).
None == <<>>
Some(x) == <<x>>

\* ExecuteResultBuilder::init
builder_init(max_size) ==
    [results |-> <<>>, current_rows |-> <<>>, current_row |-> <<>>,
     current_col_description |-> <<>>, current_err |-> None,
     max_size |-> max_size, current_size |-> 0, current_step_size |-> 0]

\* The outcome of one builder call: "Ok", "TooLarge" (ResponseTooLarge) or
\* "Panic" (a failed assert!), with the builder after it.
BRes(st, b) == [st |-> st, b |-> b]

\* ExecuteResultBuilder::begin_step
begin_step(b) ==
    IF b.current_err # None \/ b.current_rows # <<>>
    THEN BRes("Panic", b)
    ELSE BRes("Ok", [b EXCEPT !.current_step_size = 0])

\* A finish_step that keeps the rows of a step that ended with an error.
finish_step_keeps_rows(b, affected_row_count, last_insert_rowid) ==
    LET b1 == [b EXCEPT !.current_size = b.current_size + b.current_step_size] IN
    IF b1.current_err # None
    THEN BRes("Ok", [b1 EXCEPT
            !.current_err = None,
            !.results = Append(b1.results,
                [row_result |-> "Error", error |-> b1.current_err[1]])])
    ELSE BRes("Ok", [b1 EXCEPT
            !.current_col_description = <<>>,
            !.current_rows = <<>>,
            !.results = Append(b1.results,
                [row_result |-> "Row",
                 column_descriptions |-> b1.current_col_description,
                 rows |-> b1.current_rows,
                 affected_row_count |-> affected_row_count,
                 last_insert_rowid |-> last_insert_rowid])])

\* ExecuteResultBuilder::finish_step
finish_step(b, affected_row_count, last_insert_rowid) ==
    LET b1 == [b EXCEPT !.current_size = b.current_size + b.current_step_size] IN
    IF b1.current_err # None
    THEN BRes("Ok", [b1 EXCEPT
            !.current_err = None,
            !.current_rows = <<>>,
            !.current_row = <<>>,
            !.current_col_description = <<>>,
            !.results = Append(b1.results,
                [row_result |-> "Error", error |-> b1.current_err[1]])])
    ELSE BRes("Ok", [b1 EXCEPT
            !.current_col_description = <<>>,
            !.current_rows = <<>>,
            !.results = Append(b1.results,
                [row_result |-> "Row",
                 column_descriptions |-> b1.current_col_description,
                 rows |-> b1.current_rows,
                 affected_row_count |-> affected_row_count,
                 last_insert_rowid |-> last_insert_rowid])])

\* ExecuteResultBuilder::step_error
step_error(b, error) ==
    IF b.current_err # None THEN BRes("Panic", b)
    ELSE IF b.current_size + error_size(error) > b.max_size
    THEN BRes("TooLarge", b)
    ELSE BRes("Ok", [b EXCEPT !.current_step_size = error_size(error),
                              !.current_err = Some(error)])

\* ExecuteResultBuilder::cols_description: the columns are appended one by
\* one, and the call stops at the first that does not fit.
RECURSIVE cols_loop(_, _)
cols_loop(b, cols) ==
    IF cols = <<>> THEN BRes("Ok", b)
    ELSE IF col_len(Head(cols)) + b.current_step_size + b.current_size > b.max_size
    THEN BRes("TooLarge", b)
    ELSE cols_loop([b EXCEPT
            !.current_step_size = b.current_step_size + col_len(Head(cols)),
            !.current_col_description = Append(b.current_col_description, Head(cols))],
            Tail(cols))

cols_description(b, cols) ==
    IF b.current_col_description # <<>> THEN BRes("Panic", b) ELSE cols_loop(b, cols)

\* An add_row_value that tests the size of the step alone.
add_row_value_per_step(b, v) ==
    IF data_len(v) + b.current_step_size > b.max_size
    THEN BRes("TooLarge", b)
    ELSE BRes("Ok", [b EXCEPT
            !.current_step_size = b.current_step_size + data_len(v),
            !.current_row = Append(b.current_row, v)])

\* ExecuteResultBuilder::add_row_value
add_row_value(b, v) ==
    IF data_len(v) + b.current_step_size + b.current_size > b.max_size
    THEN BRes("TooLarge", b)
    ELSE BRes("Ok", [b EXCEPT
            !.current_step_size = b.current_step_size + data_len(v),
            !.current_row = Append(b.current_row, v)])

\* ExecuteResultBuilder::finish_row
finish_row(b) ==
    BRes("Ok", [b EXCEPT !.current_rows = Append(b.current_rows, b.current_row),
                         !.current_row = <<>>])

\* ------------------------------------------------ the engine connection
\* What the worker observes of sqld_libsql_bindings::Connection: the
\* autocommit flag, the committed rows of the table, and the rows written by
\* the open transaction.
conn_open == [autocommit |-> TRUE, db |-> 0, pending |-> 0]

\* conn.is_autocommit()
is_autocommit(c) == c.autocommit

\* Whether the engine can run the command in its current transaction state:
\* BEGIN needs autocommit, COMMIT and ROLLBACK need an open transaction.
engine_accepts(c, cmd) ==
    CASE cmd = "BEGIN" -> c.autocommit
      [] cmd \in {"COMMIT", "ROLLBACK"} -> ~c.autocommit
      [] OTHER -> TRUE

\* How the engine may answer a command: "ok", or a failure in prepare, or a
\* failure while stepping the statement (qresult.next()).
Outcomes(c, cmd) ==
    IF engine_accepts(c, cmd) THEN {"ok", "prepare", "step"} ELSE {"prepare", "step"}

\* The connection after the statement ran to completion.
engine_run(c, cmd) ==
    CASE cmd = "BEGIN" -> [c EXCEPT !.autocommit = FALSE]
      [] cmd = "COMMIT" ->
            [autocommit |-> TRUE, db |-> c.db + c.pending, pending |-> 0]
      [] cmd = "ROLLBACK" -> [autocommit |-> TRUE, db |-> c.db, pending |-> 0]
      [] cmd = "INSERT" ->
            IF c.autocommit THEN [c EXCEPT !.db = c.db + 1]
            ELSE [c EXCEPT !.pending = c.pending + 1]
      [] OTHER -> c

\* Frames the engine's WAL commit hands to ReplicationLoggerHook::on_frames
\* with is_commit != 0 while the statement runs: one per row written by the
\* transaction being committed.
frames_committed(c, cmd) ==
    CASE cmd = "COMMIT" -> c.pending
      [] cmd = "INSERT" /\ c.autocommit -> 1
      [] OTHER -> 0

\* stmt.columns(): SELECT and EXPLAIN have one result column.
stmt_columns(cmd) == IF cmd \in {"SELECT", "EXPLAIN"} THEN <<"x">> ELSE <<>>

\* The number of rows qresult yields: SELECT reads the table as the
\* connection sees it, EXPLAIN yields one row of the plan.
result_rows(c, cmd) ==
    CASE cmd = "SELECT" -> c.db + c.pending
      [] cmd = "EXPLAIN" -> 1
      [] OTHER -> 0

\* The row loop of execute_query, for n rows of one value each.
RECURSIVE rows_loop(_, _)
rows_loop(b, n) ==
    IF n = 0 THEN BRes("Ok", b)
    ELSE LET r == add_row_value(b, "v") IN
         IF r.st # "Ok" THEN r ELSE rows_loop(finish_row(r.b).b, n - 1)

\* The content of Connection.config_store: the runtime block configuration.
VARIABLE config

Configs == [block_reads : BOOLEAN, block_writes : BOOLEAN]

NoBlocks == [block_reads |-> FALSE, block_writes |-> FALSE]

\* A check that blocks the writes only together with the reads.
blocked_with_reads_only(kind) == kind # "TxnEnd" /\ config.block_reads

\* The `blocked` of execute_query, for the configuration of the moment.
blocked(kind) ==
    CASE kind \in {"Read", "TxnBegin", "Other"} -> config.block_reads
      [] kind = "Write" -> config.block_reads \/ config.block_writes
      [] kind = "TxnEnd" -> FALSE

\* The error execute_query returns for a statement that failed.
query_error(query) == IF blocked(query.stmt.kind) THEN Blocked ELSE EngineError

\* The result of execute_query / execute_step: st is "Ok", "Err" (an error of
\* the step), "BuilderErr" (Error::BuilderError) or "Panic".
QRes(st, b, c, frames, affected, rowid) ==
    [st |-> st, b |-> b, conn |-> c, frames |-> frames,
     affected |-> affected, rowid |-> rowid]

\* Connection::execute_query, for the engine's answer `outcome`.
execute_query(c, query, b, outcome) ==
    LET cmd == query.stmt.stmt IN
    IF blocked(query.stmt.kind) THEN QRes("Err", b, c, 0, 0, None)
    ELSE IF outcome = "prepare" THEN QRes("Err", b, c, 0, 0, None)
    ELSE LET d == cols_description(b, stmt_columns(cmd)) IN
         IF d.st = "TooLarge" THEN QRes("BuilderErr", d.b, c, 0, 0, None)
         ELSE IF d.st = "Panic" THEN QRes("Panic", d.b, c, 0, 0, None)
         ELSE IF outcome = "step" THEN QRes("Err", d.b, c, 0, 0, None)
         ELSE LET c1 == engine_run(c, cmd)
                  r == rows_loop(d.b, result_rows(c, cmd))
              IN IF r.st = "TooLarge"
                 THEN QRes("BuilderErr", r.b, c1, frames_committed(c, cmd), 0, None)
                 ELSE QRes("Ok", r.b, c1, frames_committed(c, cmd),
                           IF query.stmt.is_iud THEN 1 ELSE 0,
                           IF query.stmt.is_insert THEN Some(c1.db + c1.pending) ELSE None)

\* The result of execute_step: st is "Ok" (Ok(enabled)), "BuilderErr" or
\* "Panic"; cond is what eval_cond returned (ROk(TRUE) without a Cond); query
\* is what execute_query returned ("none" when it was not called).
SRes(st, enabled, q, cond) ==
    [st |-> st, enabled |-> enabled, b |-> q.b, conn |-> q.conn,
     frames |-> q.frames, cond |-> cond, query |-> q.st]

\* A tail that gives up the whole program when the statement fails.
execute_step_tail_abort_on_error(c, step, b, enabled, cond, outcome) ==
    IF enabled
    THEN LET q == execute_query(c, step.query, b, outcome) IN
         IF q.st = "Ok"
         THEN SRes("Ok", TRUE,
                   [q EXCEPT !.b = finish_step(q.b, q.affected, q.rowid).b], cond)
         ELSE IF q.st = "Panic" THEN SRes("Panic", FALSE, q, cond)
         ELSE SRes("BuilderErr", FALSE, q, cond)
    ELSE SRes("Ok", FALSE,
              QRes("none", finish_step(b, 0, None).b, c, 0, 0, None), cond)

\* The tail of execute_step, from the `if enabled` on.
execute_step_tail(c, step, b, enabled, cond, outcome) ==
    IF enabled
    THEN LET q == execute_query(c, step.query, b, outcome) IN
         CASE q.st \in {"BuilderErr", "Panic"} -> SRes(q.st, FALSE, q, cond)
           [] q.st = "Err" ->
                LET e == step_error(q.b, query_error(step.query)) IN
                IF e.st = "TooLarge" THEN SRes("BuilderErr", FALSE, q, cond)
                ELSE IF e.st = "Panic" THEN SRes("Panic", FALSE, q, cond)
                ELSE SRes("Ok", FALSE,
                          [q EXCEPT !.b = finish_step(e.b, 0, None).b], cond)
           [] q.st = "Ok" ->
                SRes("Ok", TRUE,
                     [q EXCEPT !.b = finish_step(q.b, q.affected, q.rowid).b], cond)
    ELSE SRes("Ok", FALSE,
              QRes("none", finish_step(b, 0, None).b, c, 0, 0, None), cond)

\* A step that runs its statement without looking at its Cond.
execute_step_ignores_cond(c, step, results, b0, outcome) ==
    execute_step_tail(c, step, begin_step(b0).b, TRUE, ROk(TRUE), outcome)

\* Connection::execute_step
execute_step(c, step, results, b0, outcome) ==
    LET bs == begin_step(b0) IN
    IF bs.st = "Panic" THEN SRes("Panic", FALSE, QRes("none", b0, c, 0, 0, None), ROk(TRUE))
    ELSE IF step.cond = NoCond
    THEN execute_step_tail(c, step, bs.b, TRUE, ROk(TRUE), outcome)
    ELSE LET r == eval_cond(step.cond, results) IN
         IF r.ok THEN execute_step_tail(c, step, bs.b, r.val, r, outcome)
         ELSE LET e == step_error(bs.b, InvalidBatchStep(r.step)) IN
              \* builder.step_error(e).unwrap()
              IF e.st # "Ok"
              THEN SRes("Panic", FALSE, QRes("none", bs.b, c, 0, 0, None), r)
              ELSE execute_step_tail(c, step, e.b, FALSE, r, outcome)

\* ------------------------------------------------------ authorization
\* A gate that lets a read-only identity run the statements of kind Other.
check_program_auth_other_as_read(auth, steps) ==
    \A i \in 1..Len(steps) :
        /\ auth # "Anonymous"
        /\ \/ steps[i].query.stmt.kind \in {"Read", "TxnBegin", "TxnEnd", "Other"}
           \/ auth = "FullAccess"

\* A gate that looks at the first step only.
check_program_auth_first_step_only(auth, steps) ==
    \/ steps = <<>>
    \/ /\ auth # "Anonymous"
       /\ \/ Head(steps).query.stmt.kind \in {"Read", "TxnBegin", "TxnEnd"}
          \/ auth = "FullAccess"

\* check_program_auth: Ok(()) is TRUE, Err(NotAuthorized) is FALSE.
RECURSIVE check_program_auth(_, _)
check_program_auth(auth, steps) ==
    IF steps = <<>> THEN TRUE
    ELSE LET kind == Head(steps).query.stmt.kind IN
         IF auth = "Anonymous" THEN FALSE
         ELSE IF kind = "Read" THEN check_program_auth(auth, Tail(steps))
         ELSE IF kind \in {"TxnBegin", "TxnEnd"} THEN check_program_auth(auth, Tail(steps))
         ELSE IF auth = "FullAccess" THEN check_program_auth(auth, Tail(steps))
         ELSE FALSE

\* check_describe_auth
check_describe_auth(auth) == auth # "Anonymous"

\* ------------------------------------------------------ replication log
\* WalPage: page_no, size_after (0 for a non-commit frame) and the page body.
WalPage(page_no, size_after, data) ==
    [page_no |-> page_no, size_after |-> size_after, data |-> data]

\* The pages the WAL hook hands to the log: a page that does not end a
\* transaction and one that does, of different numbers and bodies.
WalPages == {WalPage(1, 0, 0), WalPage(2, 2, 1)}

\* The values of a checksum.
Checksums == 0..4

\* The database identifiers Uuid::new_v4 may draw.
Uuids == {"uuid1", "uuid2"}

\* CRC_64_GO_ISO.digest_with_initial(seed), updated with a page body and
\* finalized: for one body a one-to-one function of the seed, and for one
\* seed different on different bodies.
crc64(seed, data) == (3 * seed + data + 1) % 5

\* Frame::from_parts: the FrameHeader followed by the page body.
Frame_from_parts(frame_no, checksum, page) ==
    [frame_no |-> frame_no, checksum |-> checksum, page_no |-> page.page_no,
     size_after |-> page.size_after, data |-> page.data]

\* What a write that a crash interrupted leaves in the place of a frame.
TornFrame == [frame_no |-> -1, checksum |-> -1, page_no |-> -1,
              size_after |-> -1, data |-> -1]

\* LogFileHeader; magic, version, page_size and sqld_version never change.
LogFileHeader(start_frame_no, start_checksum, db_id, frame_count) ==
    [start_frame_no |-> start_frame_no, start_checksum |-> start_checksum,
     db_id |-> db_id, frame_count |-> frame_count]

\* A file of length 0: no header, no frame.
EmptyFile == [header |-> None, frames |-> <<>>]

\* The errors of LogFile::frame.
SnapshotRequired == [err |-> "SnapshotRequired"]
Ahead == [err |-> "Ahead"]
IoError == [err |-> "Error"]

\* LogFile::absolute_byte_offset, in frames past the header: the place of
\* the nth entry among the frames of the file, the first one at 1.
absolute_byte_offset(nth) == nth + 1

\* A next_byte_offset that does not count the uncommitted frames.
next_byte_offset_of_committed(l) == absolute_byte_offset(l.header.frame_count)

\* LogFile::next_byte_offset
next_byte_offset(l) ==
    absolute_byte_offset(l.header.frame_count + l.uncommitted_frame_count)

\* A next_frame_no that does not count the uncommitted frames.
next_frame_no_of_committed(l) == l.header.start_frame_no + l.header.frame_count

\* LogFile::next_frame_no
next_frame_no(l) ==
    l.header.start_frame_no + l.header.frame_count + l.uncommitted_frame_count

\* LogFile::compute_checksum
compute_checksum(l, page) == crc64(l.uncommitted_checksum, page.data)

\* file.write_all_at of one frame at a place of the file: it replaces the
\* frame there, or extends the file by it.
write_all_at(f, frame, offset) ==
    [f EXCEPT !.frames = IF offset <= Len(f.frames)
                         THEN [f.frames EXCEPT ![offset] = frame]
                         ELSE Append(f.frames, frame)]

\* LogFile::read_frame_byte_offset: read_exact_at fails past the end of the
\* file, Frame::try_from_bytes takes what is there.
read_frame_byte_offset(f, offset) ==
    IF offset \in 1..Len(f.frames) THEN f.frames[offset] ELSE IoError

\* LogFile::byte_offset
byte_offset(l, id) ==
    IF \/ id < l.header.start_frame_no
       \/ id > l.header.start_frame_no + l.header.frame_count
    THEN None
    ELSE Some(absolute_byte_offset(id - l.header.start_frame_no))

\* A lookup that takes the uncommitted frames for frames of the log.
frame_with_uncommitted(l, f, frame_no) ==
    IF frame_no < l.header.start_frame_no THEN SnapshotRequired
    ELSE IF frame_no >= next_frame_no(l) THEN Ahead
    ELSE read_frame_byte_offset(
             f, absolute_byte_offset(frame_no - l.header.start_frame_no))

\* LogFile::frame
frame(l, f, frame_no) ==
    IF frame_no < l.header.start_frame_no THEN SnapshotRequired
    ELSE IF frame_no >= l.header.start_frame_no + l.header.frame_count THEN Ahead
    ELSE read_frame_byte_offset(f, byte_offset(l, frame_no)[1])

\* LogFile::last_commited_frame_no
last_commited_frame_no(l) ==
    IF l.header.frame_count = 0 THEN None
    ELSE Some(l.header.start_frame_no + l.header.frame_count - 1)

\* The LogFile struct without its file.
LogFile(header, uncommitted_frame_count, uncommitted_checksum, commited_checksum) ==
    [header |-> header, uncommitted_frame_count |-> uncommitted_frame_count,
     uncommitted_checksum |-> uncommitted_checksum,
     commited_checksum |-> commited_checksum]

\* A LogFile::new that leaves the checksums of a log it reads at 0.
LogFile_new_zero_checksums(f, uuid) ==
    IF f.header = None
    THEN LET header == LogFileHeader(0, 0, uuid, 0) IN
         [log |-> LogFile(header, 0, 0, 0), file |-> [f EXCEPT !.header = Some(header)]]
    ELSE [log |-> LogFile(f.header[1], 0, 0, 0), file |-> f]

\* LogFile::new over a file: the LogFile and the file it leaves.  An empty
\* file gets a new header, which is written, and the checksums stay 0; the
\* header of any other file is read, and the checksums are those of its
\* last committed frame, or the start_checksum of a log without frames.
LogFile_new(f, uuid) ==
    IF f.header = None
    THEN LET header == LogFileHeader(0, 0, uuid, 0) IN
         [log |-> LogFile(header, 0, 0, 0), file |-> [f EXCEPT !.header = Some(header)]]
    ELSE LET this == LogFile(f.header[1], 0, 0, 0)
             last_commited == last_commited_frame_no(this)
             checksum == IF last_commited # None
                         THEN frame(this, f, last_commited[1]).checksum
                         ELSE this.header.start_checksum
         IN  [log |-> LogFile(this.header, 0, checksum, checksum), file |-> f]

\* A should_compact that fires when the log has reached the limit.
should_compact_at_limit(l, elapsed) ==
    /\ l.header.frame_count >= MaxLogFrameCount \/ elapsed
    /\ l.uncommitted_frame_count = 0

\* LogFile::should_compact, `elapsed` telling whether max_log_duration is
\* set and has passed since the last compaction.
should_compact(l, elapsed) ==
    /\ l.header.frame_count > MaxLogFrameCount \/ elapsed
    /\ l.uncommitted_frame_count = 0

\* A log: the file and the LogFile over it.
Log(f, l) == [wallog |-> f, log_file |-> l]

\* LogFile::push_page, as a function of the log.
LogFile_push_page(s, page) ==
    LET checksum == compute_checksum(s.log_file, page)
        new_frame == Frame_from_parts(next_frame_no(s.log_file), checksum, page)
    IN  Log(write_all_at(s.wallog, new_frame, next_byte_offset(s.log_file)),
            [s.log_file EXCEPT !.uncommitted_frame_count = @ + 1,
                               !.uncommitted_checksum = checksum])

\* LogFile::push_page whose write fails before it wrote: `?` returns the
\* error, and no count changes.
LogFile_push_page_fails(s) == s

\* The header of LogFile::commit.
commit_header(l) ==
    [l.header EXCEPT !.frame_count = @ + l.uncommitted_frame_count]

\* LogFile::commit, as a function of the log.
LogFile_commit(s) ==
    LET header == commit_header(s.log_file) IN
    Log([s.wallog EXCEPT !.header = Some(header)],
        LogFile(header, 0, s.log_file.uncommitted_checksum,
                s.log_file.uncommitted_checksum))

\* LogFile::rollback, as a function of the log.
LogFile_rollback(s) ==
    Log(s.wallog, [s.log_file EXCEPT
                     !.uncommitted_frame_count = 0,
                     !.uncommitted_checksum = s.log_file.commited_checksum])

\* LogFile::do_compaction, as a function of the log: the LogFile made over
\* the empty temp_log, with the header replaced and written.
LogFile_do_compaction(s, uuid) ==
    LET new_log_file == LogFile_new(EmptyFile, uuid)
        new_header ==
            [s.log_file.header EXCEPT
               !.start_frame_no =
                   s.log_file.header.start_frame_no + s.log_file.header.frame_count,
               !.frame_count = 0,
               !.start_checksum = s.log_file.commited_checksum]
    IN  Log([new_log_file.file EXCEPT !.header = Some(new_header)],
            [new_log_file.log EXCEPT !.header = new_header])

\* LogFileHeader::last_frame_no
last_frame_no(header) == header.start_frame_no + header.frame_count

VARIABLES
    wallog,               \* the file at <db_path>/wallog: header and frames
    log_file,             \* ReplicationLogger.log_file, the LogFile
    compacted,            \* the log files handed to the compactor, oldest first
    pushed,               \* the WalPage last given to push_page, per frame_no
    last_call             \* what the latest operation on the log returned

log_vars == <<wallog, log_file, compacted, pushed, last_call>>

VARIABLES
    hook_buffer,          \* ReplicationLoggerHookCtx.buffer
    hook_call,            \* the on_frames call that waits for the underlying call
    hook_ret,             \* what the latest call of the hook returned
    wal,                  \* the WAL of the engine, written by the underlying calls
    new_frame_notifier    \* ReplicationLogger.new_frame_notifier: its values so far

hook_vars == <<hook_buffer, hook_call, hook_ret, wal, new_frame_notifier>>

\* ------------------------------------------------- the proxy's client map
\* The client ids of the requests, and the requests the service handles.
MaxRequests == 3
MaxDisconnects == 2
ClientIds == {"client1", "client2"}
Requests == 1..MaxRequests

VARIABLES
    clients,              \* ProxyService.clients: the worker of each client id
    clients_lock,         \* the requests that hold a guard of the RwLock
    request,              \* each execute request: where it is, and its `db`
    created,              \* the workers factory.create() returned, oldest first
    disconnects           \* the disconnect messages handled so far, per client

proxy_vars == <<clients, clients_lock, request, created, disconnects>>

\* ------------------------------------------------ the log on stable storage
VARIABLE disk             \* what of the file "wallog" has reached stable storage

\* ------------------------------------------- a builder driven directly
VARIABLE builder_call     \* the latest call on the builder and its outcome
VARIABLE sender           \* LibSqlDb.sender over all clones of the handle:
                          \* "alive", or "dropped" when the last one is gone

VARIABLES
    retries,              \* try_create_db's `retries`
    attempts,             \* what each create_database().await returned, in order
    create_ret            \* what try_create_db returned: None while it loops

create_vars == <<retries, attempts, create_ret>>

VARIABLE checkpoint       \* the latest on_checkpoint: its mode, what the
                          \* underlying checkpoint returned, and the calls it
                          \* made on the bottomless replicator

VARIABLES
    writable_schema,      \* the writable_schema pragma of the injector's connection
    injector_steps        \* the calls of FrameInjector::step so far, oldest first

injector_vars == <<writable_schema, injector_steps>>

VARIABLES
    execs,                \* the execute requests of the proxy that run programs on
                          \* the primary's log: where each is, the notifier's
                          \* values before it and by its own commits, and the
                          \* current_frame_no it returned
    writer                \* the request whose statement writes, with the
                          \* committed frames of the WAL when it began

frame_no_vars == <<execs, writer>>

rest_vars == <<sender, create_vars, checkpoint, injector_vars, frame_no_vars>>

\* ------------------------------------------------ a State driven directly
MaxKinds == 3

VARIABLES
    txn_state,            \* a State of query_analysis
    stepped               \* the calls made on it since it was made, oldest first

state_vars == <<txn_state, stepped>>

\* The variables of the components other than the connection worker.
other_vars == <<log_vars, hook_vars, proxy_vars, state_vars, disk, builder_call, rest_vars>>

\* What an operation returned: Ok(()) of push_page, commit, rollback and
\* maybe_compact, the LogFile of LogFile::new, and of get_frame the frame or
\* the error, with the frame number asked for.
Called(op, arg, res) == [op |-> op, arg |-> arg, res |-> res]
ReturnedOk == Called("Ok", None, None)
Opened == Called("open", None, None)

\* What a call of the hook returned: its name, its code, and whether the
\* underlying method was called.
HookRet(call, rc, orig) == [call |-> call, rc |-> rc, orig |-> orig]
NoRet == HookRet("none", "", FALSE)

\* ReplicationLogger::open of a database directory without a log; which
\* identifier the first log draws makes no difference.
LogInit ==
    /\ LET new == LogFile_new(EmptyFile, "uuid1") IN
         /\ wallog = new.file
         /\ log_file = new.log
    /\ compacted = <<>>
    /\ pushed = [n \in 0..(MaxFrameNo - 1) |-> None]
    /\ last_call = Opened
    /\ hook_buffer = <<>>
    /\ hook_call = None
    /\ hook_ret = NoRet
    /\ wal = [txn |-> <<>>, committed |-> <<>>, undo |-> FALSE]
    /\ new_frame_notifier = last_frame_no(log_file.header)

\* An execute request: where it is in ProxyService::execute, the client id
\* it carries and the worker it holds in `db`.
Request(at, client_id, db) == [at |-> at, client_id |-> client_id, db |-> db]

\* ProxyService::new: no client has a worker, nobody holds the lock.
ProxyInit ==
    /\ clients = [c \in ClientIds |-> None]
    /\ clients_lock = {}
    /\ request = [r \in Requests |-> Request("idle", None, None)]
    /\ created = <<>>
    /\ disconnects = [c \in ClientIds |-> 0]

\* Nothing of a file that was just created is on stable storage: neither
\* its header nor any frame.
DiskInit == disk = [header |-> None, frames |-> [k \in 1..MaxFrameNo |-> None]]

\* A call on the builder: its name and "Ok", "TooLarge" or "Panic".
BuilderCall(op, st) == [op |-> op, st |-> st]

\* No call was made on the builder yet.
BuilderCallInit == builder_call = BuilderCall("none", "Ok")

\* LibSqlDb::new returns the one handle of the new worker.
SenderInit == sender = "alive"

\* try_create_db is entered: `let mut retries = 0`.
CreateInit ==
    /\ retries = 0
    /\ attempts = <<>>
    /\ create_ret = None

\* One call of on_checkpoint: orig_rc is None when the underlying
\* checkpoint was not invoked.
Checkpoint(emode, orig_rc, calls) == [emode |-> emode, orig_rc |-> orig_rc, calls |-> calls]

\* No checkpoint was asked for yet.
CheckpointInit == checkpoint = Checkpoint(0, None, <<>>)

\* FrameInjector::new: a connection as the engine opens it.
InjectorInit ==
    /\ writable_schema = "off"
    /\ injector_steps = <<>>

\* The requests that run programs against the log: two, of any clients.
Execs == {"exec1", "exec2"}

\* An execute request of the proxy.
Exec(at, before, published, current_frame_no) ==
    [at |-> at, before |-> before, published |-> published,
     current_frame_no |-> current_frame_no]

\* No request has arrived.
FrameNoInit ==
    /\ execs = [r \in Execs |-> Exec("idle", 0, {}, None)]
    /\ writer = None

RestInit == SenderInit /\ CreateInit /\ CheckpointInit /\ InjectorInit /\ FrameNoInit

\* A State starts as Init wherever the code makes one.
StateInit ==
    /\ txn_state = "Init"
    /\ stepped = <<>>

\* ---------------------------------------------------------------- state
VARIABLES
    channel,              \* the crossbeam channel of ExecCallbacks, oldest first
    conn,                 \* Connection.conn, the engine handle
    wal_committed,        \* frames committed to the shadow log by the WAL hook
    timeout_deadline,     \* Connection.timeout_deadline: None or Some(instant)
    timed_out,            \* Connection.timed_out
    max_size,             \* Connection.builder_config.max_size
    pc,                   \* the worker thread: "recv", "run", "abort", "panicked",
                          \* "closed" (it returned from its loop) or
                          \* "disconnected" (it broke out of its loop)
    exec,                 \* the callback the worker is running
    results,              \* run's `results`: Ok(enabled) of the steps run so far
    builder,              \* run's `builder`
    is_autocommit_before, \* run's `is_autocommit_before`
    cond_vals,            \* what eval_cond returned for each step run so far
    query_res,            \* what execute_query returned in the latest step
    caller_pc,            \* the caller of the handle: "idle" or "waiting"
    call,                 \* the caller's latest request and identity
    reply,                \* the latest value returned to the caller
    ncalls,               \* requests made so far
    oneshot               \* the oneshot reply channel of each request

vars == <<channel, conn, wal_committed, timeout_deadline, timed_out, max_size, other_vars, config, pc,
          exec, results, builder, is_autocommit_before, cond_vals, query_res,
          caller_pc, call, reply, ncalls, oneshot>>

worker_vars == <<conn, wal_committed, timeout_deadline, timed_out, max_size, other_vars, config, pc,
                 exec, results, builder, is_autocommit_before, cond_vals, query_res>>

\* A callback on the channel: a program to run, or a statement to describe.
ProgramCb(pgm) == [type |-> "program", pgm |-> pgm, sql |-> ""]
DescribeCb(sql) == [type |-> "describe", pgm |-> <<>>, sql |-> sql]
NoCb == [type |-> "none", pgm |-> <<>>, sql |-> ""]

\* The callback with the sender of its request's oneshot channel (`resp`).
WithResp(cb, id) == [type |-> cb.type, pgm |-> cb.pgm, sql |-> cb.sql, resp |-> id]

\* The oneshot channels: "none" (not created, or consumed), "open", "sent" (a
\* value waits for the receiver), "rx_dropped" (the caller dropped its
\* future), "tx_dropped" (the callback was dropped without sending).
NoOneshots == [id \in 1..MaxCalls |-> "none"]

\* What the caller's future resolves to.
ReplyOk(res, state) == [kind |-> "ok", results |-> res, state |-> state, err |-> None]
ReplyErr(e) == [kind |-> "err", results |-> <<>>, state |-> "", err |-> Some(e)]
ReplyDescribe(ok) ==
    [kind |-> "describe", results |-> <<>>, state |-> "",
     err |-> IF ok THEN None ELSE Some(EngineError)]
NoReply == [kind |-> "none", results |-> <<>>, state |-> "", err |-> None]

NoCall == [cb |-> NoCb, auth |-> "Anonymous"]

\* Connection::new, the worker thread at the top of its loop, an idle caller.
Init ==
    /\ LogInit
    /\ ProxyInit
    /\ StateInit
    /\ DiskInit
    /\ BuilderCallInit
    /\ RestInit
    /\ channel = <<>>
    /\ conn = conn_open
    /\ wal_committed = 0
    /\ timeout_deadline = None
    /\ timed_out = FALSE
    /\ max_size = MaxResponseSize
    /\ config = NoBlocks
    /\ pc = "recv"
    /\ exec = NoCb
    /\ results = <<>>
    /\ builder = builder_init(0)
    /\ is_autocommit_before = TRUE
    /\ cond_vals = <<>>
    /\ query_res = "none"
    /\ caller_pc = "idle"
    /\ call = NoCall
    /\ reply = NoReply
    /\ ncalls = 0
    /\ oneshot = NoOneshots

\* sender.send(cb) followed by receiver.await: the callback is queued when the
\* worker thread lives; otherwise it is dropped and the await fails.
Enqueue(cb) ==
    IF pc \in {"panicked", "closed"}
    THEN /\ reply' = ReplyErr(RecvError)
         /\ caller_pc' = "returned"
         /\ UNCHANGED <<channel, oneshot>>
    ELSE /\ channel' = Append(channel, WithResp(cb, ncalls + 1))
         /\ oneshot' = [oneshot EXCEPT ![ncalls + 1] = "open"]
         /\ caller_pc' = "waiting"
         /\ UNCHANGED reply

\* The authorization gate in front of the channel: the callback is queued
\* when the gate passes, and the call returns NotAuthorized otherwise.
Gate(passes, cb) ==
    IF passes
    THEN Enqueue(cb)
    ELSE /\ reply' = ReplyErr(NotAuthorized)
         /\ caller_pc' = "returned"
         /\ UNCHANGED <<channel, oneshot>>

\* LibSqlDb::execute_program, up to the await.
ExecuteProgram ==
    /\ caller_pc = "idle"
    /\ ncalls < MaxCalls
    /\ \E pgm \in Programs, auth \in Auths :
         /\ call' = [cb |-> ProgramCb(pgm), auth |-> auth]
         /\ Gate(check_program_auth(auth, pgm), ProgramCb(pgm))
    /\ ncalls' = ncalls + 1
    /\ UNCHANGED worker_vars

\* LibSqlDb::describe, up to the await.
Describe ==
    /\ caller_pc = "idle"
    /\ ncalls < MaxCalls
    /\ \E auth \in Auths :
         /\ call' = [cb |-> DescribeCb("SELECT"), auth |-> auth]
         /\ Gate(check_describe_auth(auth), DescribeCb("SELECT"))
    /\ ncalls' = ncalls + 1
    /\ UNCHANGED worker_vars

\* The caller takes the value its call returned and is free to call again.
CallerReturn ==
    /\ caller_pc = "returned"
    /\ caller_pc' = "idle"
    /\ call' = NoCall
    /\ reply' = NoReply
    /\ oneshot' = [oneshot EXCEPT ![ncalls] = "none"]
    /\ UNCHANGED <<channel, worker_vars, ncalls>>

\* A rollback that leaves the transaction open.
rollback_skipped(c) == c

\* Connection::rollback: conn.execute("ROLLBACK"), its error ignored.
rollback(c) == IF engine_accepts(c, "ROLLBACK") THEN engine_run(c, "ROLLBACK") ELSE c

\* An expiry that rolls back and flags the timeout but keeps the deadline.
WorkerTimeout_keeps_deadline ==
    /\ pc = "recv"
    /\ timeout_deadline # None
    /\ channel = <<>>
    /\ ~timed_out
    /\ conn' = rollback(conn)
    /\ timed_out' = TRUE
    /\ UNCHANGED <<channel, wal_committed, timeout_deadline, max_size, other_vars, config, pc, exec,
                   results, builder, is_autocommit_before, cond_vals, query_res,
                   caller_pc, call, reply, ncalls, oneshot>>

\* The worker loop: recv_deadline(deadline) returned Timeout.
WorkerTimeout ==
    /\ pc = "recv"
    /\ timeout_deadline # None
    /\ channel = <<>>
    /\ conn' = rollback(conn)
    /\ timed_out' = TRUE
    /\ timeout_deadline' = None
    /\ UNCHANGED <<channel, wal_committed, max_size, other_vars, config, pc, exec, results, builder,
                   is_autocommit_before, cond_vals, query_res, caller_pc, call,
                   reply, ncalls, oneshot>>

\* The requests of a channel content lose their callbacks: the senders of
\* their oneshot channels are dropped.
drop_callbacks(ch) ==
    [id \in 1..MaxCalls |->
        IF \E k \in 1..Len(ch) : ch[k].resp = id THEN "tx_dropped" ELSE oneshot[id]]

\* The end of a callback, and what the worker loop makes of its result:
\* resp.send(res) delivers the value and the worker goes on with the channel
\* content `ch`; when the receiver was dropped the send fails, the callback
\* bails out and the worker thread returns, dropping the connection and the
\* channel with the callbacks queued on it.
resp_send(id, value, ch) ==
    IF oneshot[id] = "rx_dropped"
    THEN /\ pc' = "closed"
         /\ channel' = <<>>
         /\ oneshot' = [drop_callbacks(ch) EXCEPT ![id] = "none"]
         /\ UNCHANGED <<reply, caller_pc>>
    ELSE /\ pc' = "recv"
         /\ channel' = ch
         /\ oneshot' = [oneshot EXCEPT ![id] = "sent"]
         /\ reply' = value
         /\ caller_pc' = "returned"

\* The variables of Connection and of run.
conn_vars == <<conn, wal_committed, timeout_deadline, timed_out, max_size, other_vars, config,
               exec, results, builder, is_autocommit_before, cond_vals, query_res>>

\* The worker loop received a callback while timed_out is set:
\* exec(Err(LibSqlTxTimeout)).
WorkerRecvTimedOut ==
    /\ pc = "recv"
    /\ channel # <<>>
    /\ timed_out
    /\ resp_send(Head(channel).resp, ReplyErr(LibSqlTxTimeout), Tail(channel))
    /\ UNCHANGED <<conn_vars, call, ncalls>>

\* The worker loop received a program: the callback enters Connection::run
\* (builder.init, is_autocommit_before).
WorkerRecvProgram ==
    /\ pc = "recv"
    /\ channel # <<>>
    /\ ~timed_out
    /\ Head(channel).type = "program"
    /\ channel' = Tail(channel)
    /\ exec' = Head(channel)
    /\ builder' = builder_init(max_size)
    /\ is_autocommit_before' = is_autocommit(conn)
    /\ results' = <<>>
    /\ cond_vals' = <<>>
    /\ query_res' = "none"
    /\ pc' = "run"
    /\ UNCHANGED <<conn, wal_committed, timeout_deadline, timed_out, max_size, other_vars, config,
                   caller_pc, call, reply, ncalls, oneshot>>

\* The worker loop received a describe: Connection::describe prepares the
\* statement, and the callback sends the answer.
WorkerRecvDescribe ==
    /\ pc = "recv"
    /\ channel # <<>>
    /\ ~timed_out
    /\ Head(channel).type = "describe"
    /\ \E ok \in BOOLEAN :
         resp_send(Head(channel).resp, ReplyDescribe(ok), Tail(channel))
    /\ UNCHANGED <<conn_vars, call, ncalls>>

\* The locals of run are dropped when the callback returns.
RunReturns ==
    /\ exec' = NoCb
    /\ results' = <<>>
    /\ builder' = builder_init(0)
    /\ is_autocommit_before' = TRUE
    /\ cond_vals' = <<>>
    /\ query_res' = "none"

\* One iteration of run's loop: execute_step on the next step.  Ok(enabled) is
\* pushed on results; a builder error leaves run through `?`; a panic ends
\* the worker thread, which drops the connection and the reply sender.
WorkerStep ==
    /\ pc = "run"
    /\ Len(results) < Len(exec.pgm)
    /\ LET step == exec.pgm[Len(results) + 1] IN
       \E outcome \in Outcomes(conn, step.query.stmt.stmt) :
         LET r == execute_step(conn, step, results, builder, outcome) IN
         /\ conn' = r.conn
         /\ wal_committed' = wal_committed + r.frames
         /\ CASE r.st = "Ok" ->
                   /\ results' = Append(results, r.enabled)
                   /\ builder' = r.b
                   /\ cond_vals' = Append(cond_vals, r.cond)
                   /\ query_res' = r.query
                   /\ UNCHANGED <<pc, reply, caller_pc, exec, is_autocommit_before,
                                  channel, oneshot>>
              [] r.st = "BuilderErr" ->
                   /\ pc' = "abort"
                   /\ builder' = r.b
                   /\ cond_vals' = Append(cond_vals, r.cond)
                   /\ query_res' = r.query
                   /\ UNCHANGED <<results, reply, caller_pc, exec, is_autocommit_before,
                                  channel, oneshot>>
              [] r.st = "Panic" ->
                   /\ pc' = "panicked"
                   /\ reply' = ReplyErr(RecvError)
                   /\ caller_pc' = "returned"
                   /\ channel' = <<>>
                   /\ oneshot' = [drop_callbacks(channel) EXCEPT ![exec.resp] = "tx_dropped"]
                   /\ RunReturns
    /\ UNCHANGED <<timeout_deadline, timed_out, max_size, other_vars, config, call, ncalls>>

\* run returned Err(BuilderError): the callback sends the error and the worker
\* goes back to its loop.
WorkerAbort ==
    /\ pc = "abort"
    /\ resp_send(exec.resp, ReplyErr(ResponseTooLarge), channel)
    /\ RunReturns
    /\ UNCHANGED <<conn, wal_committed, timeout_deadline, timed_out, max_size, other_vars, config,
                   call, ncalls>>

\* A slip in the callback: the two states exchanged.
returned_state_swapped(c) == IF is_autocommit(c) THEN "Txn" ELSE "Init"

\* The state execute_program's callback returns with the builder.
returned_state(c) == IF is_autocommit(c) THEN "Init" ELSE "Txn"

\* The deadline run leaves: armed when a transaction was opened by the program.
deadline_after_run(before, c, deadline) ==
    IF before /\ ~is_autocommit(c) THEN Some("now+TXN_TIMEOUT") ELSE deadline

\* The end of run (the deadline, builder.finish) and of the callback (the
\* state, resp.send).
WorkerFinish ==
    /\ pc = "run"
    /\ Len(results) = Len(exec.pgm)
    /\ timeout_deadline' = deadline_after_run(is_autocommit_before, conn, timeout_deadline)
    /\ resp_send(exec.resp, ReplyOk(builder.results, returned_state(conn)), channel)
    /\ RunReturns
    /\ UNCHANGED <<conn, wal_committed, timed_out, max_size, other_vars, config, call, ncalls>>

Next ==
    \/ ExecuteProgram
    \/ Describe
    \/ CallerReturn
    \/ WorkerTimeout
    \/ WorkerRecvTimedOut
    \/ WorkerRecvProgram
    \/ WorkerRecvDescribe
    \/ WorkerStep
    \/ WorkerAbort
    \/ WorkerFinish

Spec == Init /\ [][Next]_vars

\* ------------------------------------------------- the Cond specification
\* One program of CondPrograms is on the channel of a worker whose engine is
\* in autocommit, or inside a transaction that wrote one row (its deadline
\* armed); the worker runs it to its reply.
InitCond ==
    /\ LogInit
    /\ ProxyInit
    /\ StateInit
    /\ DiskInit
    /\ BuilderCallInit
    /\ RestInit
    /\ \E pgm \in CondPrograms : channel = <<WithResp(ProgramCb(pgm), MaxCalls)>>
    /\ \/ conn = conn_open /\ timeout_deadline = None
       \/ /\ conn = [autocommit |-> FALSE, db |-> 0, pending |-> 1]
          /\ timeout_deadline = Some("now+TXN_TIMEOUT")
    /\ wal_committed = 0
    /\ timed_out = FALSE
    /\ max_size = MaxResponseSize
    /\ config = NoBlocks
    /\ pc = "recv"
    /\ exec = NoCb
    /\ results = <<>>
    /\ builder = builder_init(0)
    /\ is_autocommit_before = TRUE
    /\ cond_vals = <<>>
    /\ query_res = "none"
    /\ caller_pc = "waiting"
    /\ call = NoCall
    /\ reply = NoReply
    /\ ncalls = MaxCalls
    /\ oneshot = [NoOneshots EXCEPT ![MaxCalls] = "open"]

NextCond ==
    \/ WorkerRecvProgram
    \/ WorkerStep
    \/ WorkerAbort
    \/ WorkerFinish
    \/ CallerReturn

SpecCond == InitCond /\ [][NextCond]_vars

\* ------------------------------------------------ the block specification
\* One program without Conds is on the channel of a worker whose engine is in
\* autocommit, or inside a transaction that wrote one row; the block
\* configuration is any, and may be changed while the program runs.
InitBlock ==
    /\ LogInit
    /\ ProxyInit
    /\ StateInit
    /\ DiskInit
    /\ BuilderCallInit
    /\ RestInit
    /\ \E pgm \in Programs : channel = <<WithResp(ProgramCb(pgm), MaxCalls)>>
    /\ \/ conn = conn_open /\ timeout_deadline = None
       \/ /\ conn = [autocommit |-> FALSE, db |-> 0, pending |-> 1]
          /\ timeout_deadline = Some("now+TXN_TIMEOUT")
    /\ config \in Configs
    /\ wal_committed = 0
    /\ timed_out = FALSE
    /\ max_size = MaxResponseSize
    /\ pc = "recv"
    /\ exec = NoCb
    /\ results = <<>>
    /\ builder = builder_init(0)
    /\ is_autocommit_before = TRUE
    /\ cond_vals = <<>>
    /\ query_res = "none"
    /\ caller_pc = "waiting"
    /\ call = NoCall
    /\ reply = NoReply
    /\ ncalls = MaxCalls
    /\ oneshot = [NoOneshots EXCEPT ![MaxCalls] = "open"]

\* The configuration store is given a new content between two queries.
ConfigStoreUpdate ==
    /\ pc = "run"
    /\ config' \in Configs \ {config}
    /\ UNCHANGED <<channel, conn, wal_committed, timeout_deadline, timed_out,
                   max_size, other_vars, pc, exec, results, builder, is_autocommit_before,
                   cond_vals, query_res, caller_pc, call, reply, ncalls, oneshot>>

NextBlock ==
    \/ ConfigStoreUpdate
    \/ WorkerRecvProgram
    \/ WorkerStep
    \/ WorkerAbort
    \/ WorkerFinish
    \/ CallerReturn

SpecBlock == InitBlock /\ [][NextBlock]_vars

\* ------------------------------------------------ the queue specification
\* Several futures of execute_program and describe are in flight on one
\* handle: requests are queued while the worker is busy, and a caller may
\* drop its future before the reply.
QueueCallbacks ==
    {ProgramCb(<<Step("INSERT", NoCond)>>),
     ProgramCb(<<Step("BEGIN", NoCond), Step("INSERT", NoCond)>>),
     ProgramCb(<<Step("SELECT", NoCond)>>),
     DescribeCb("SELECT")}

\* sender.send(cb) of one more request, its caller left awaiting the reply.
\* When the worker thread is gone the send fails and the callback is dropped.
ConcurrentCall ==
    /\ ncalls < MaxCalls
    /\ ncalls' = ncalls + 1
    /\ IF pc \in {"panicked", "closed"}
       THEN /\ oneshot' = [oneshot EXCEPT ![ncalls + 1] = "tx_dropped"]
            /\ UNCHANGED channel
       ELSE \E cb \in QueueCallbacks :
            /\ channel' = Append(channel, WithResp(cb, ncalls + 1))
            /\ oneshot' = [oneshot EXCEPT ![ncalls + 1] = "open"]
    /\ UNCHANGED <<worker_vars, caller_pc, call, reply>>

\* The caller of a request drops its future, and with it the receiver of the
\* oneshot channel, before a reply was sent.
CancelCall ==
    /\ \E id \in 1..MaxCalls :
         /\ oneshot[id] = "open"
         /\ oneshot' = [oneshot EXCEPT ![id] = "rx_dropped"]
    /\ UNCHANGED <<channel, worker_vars, caller_pc, call, reply, ncalls>>

NextQueue ==
    \/ ConcurrentCall
    \/ CancelCall
    \/ WorkerTimeout
    \/ WorkerRecvTimedOut
    \/ WorkerRecvProgram
    \/ WorkerRecvDescribe
    \/ WorkerStep
    \/ WorkerAbort
    \/ WorkerFinish

SpecQueue == Init /\ [][NextQueue]_vars

\* ------------------------------------------------- the drop specification
\* The handles of a worker are dropped while requests are queued or running,
\* and the worker thread is scheduled until it ends.
DropCallbacks ==
    QueueCallbacks \cup
        {ProgramCb(<<Step("SELECT", NoCond), Step("SELECT", CondOk(MaxCondRef))>>)}

\* A receive that never reports the closed channel.
disconnect_unseen(ch, s) == FALSE

\* recv_deadline(deadline) returns Err(Disconnected), and recv() returns
\* Err(RecvError), when the channel is empty and every Sender was dropped.
is_disconnected(ch, s) == ch = <<>> /\ s = "dropped"

\* sender.send(cb) through a handle that is still held.
HandleCall ==
    /\ sender = "alive"
    /\ pc \notin {"panicked", "closed"}
    /\ ncalls < MaxCalls
    /\ ncalls' = ncalls + 1
    /\ \E cb \in DropCallbacks :
         /\ channel' = Append(channel, WithResp(cb, ncalls + 1))
         /\ oneshot' = [oneshot EXCEPT ![ncalls + 1] = "open"]
    /\ UNCHANGED <<worker_vars, caller_pc, call, reply>>

\* The last clone of the LibSqlDb handle is dropped: the channel is closed for
\* sending, and what is queued on it stays.
DropHandle ==
    /\ sender = "alive"
    /\ sender' = "dropped"
    /\ UNCHANGED <<channel, conn, wal_committed, timeout_deadline, timed_out, max_size,
                   log_vars, hook_vars, proxy_vars, state_vars, disk, builder_call,
                   create_vars, checkpoint, injector_vars, frame_no_vars, config, pc, exec, results, builder, is_autocommit_before,
                   cond_vals, query_res, caller_pc, call, reply, ncalls, oneshot>>

\* The worker loop: recv_deadline returned Disconnected, or recv returned Err;
\* the loop breaks, the thread ends and drops the connection.
WorkerDisconnected ==
    /\ pc = "recv"
    /\ is_disconnected(channel, sender)
    /\ pc' = "disconnected"
    /\ UNCHANGED <<channel, conn, wal_committed, timeout_deadline, timed_out, max_size,
                   other_vars, config, exec, results, builder, is_autocommit_before,
                   cond_vals, query_res, caller_pc, call, reply, ncalls, oneshot>>

\* The steps of the worker thread around a callback's steps.
WorkerLoop ==
    \/ WorkerTimeout
    \/ WorkerRecvTimedOut
    \/ WorkerRecvProgram
    \/ WorkerRecvDescribe
    \/ WorkerAbort
    \/ WorkerFinish
    \/ WorkerDisconnected

\* WorkerStep can be taken: run has a step left, and the step has an outcome.
WorkerStepEnabled == pc = "run" /\ Len(results) < Len(exec.pgm)

\* WF_vars(WorkerStep), with ENABLED <<WorkerStep>>_vars written out.
WorkerStepFair == []<>(~WorkerStepEnabled) \/ []<><<WorkerStep>>_vars

NextDrop ==
    \/ HandleCall
    \/ CancelCall
    \/ DropHandle
    \/ WorkerTimeout
    \/ WorkerRecvTimedOut
    \/ WorkerRecvProgram
    \/ WorkerRecvDescribe
    \/ WorkerStep
    \/ WorkerAbort
    \/ WorkerFinish
    \/ WorkerDisconnected

\* The worker runs on a blocking thread of its own
\* (tokio::task::spawn_blocking): the operating system keeps scheduling it,
\* whatever the callers do.
SpecDrop == Init /\ [][NextDrop]_vars /\ WF_vars(WorkerLoop) /\ WorkerStepFair

\* -------------------------------------------------- the log specification
\* The variables of the connection worker and of its caller.
server_vars == <<channel, conn, wal_committed, timeout_deadline, timed_out, max_size,
                 config, pc, exec, results, builder, is_autocommit_before,
                 cond_vals, query_res, caller_pc, call, reply, ncalls, oneshot>>

\* LogFile::push_page of one page: the frame is written at next_byte_offset,
\* the header is not.
PushPage(page) ==
    /\ next_frame_no(log_file) < MaxFrameNo
    /\ LET s == LogFile_push_page(Log(wallog, log_file), page)
       IN  /\ wallog' = s.wallog
           /\ log_file' = s.log_file
           /\ pushed' = [pushed EXCEPT ![next_frame_no(log_file)] = Some(page)]
    /\ last_call' = ReturnedOk
    /\ UNCHANGED <<compacted, server_vars, hook_vars, proxy_vars, state_vars, disk, builder_call, rest_vars>>

\* File::flush of write_header: std::fs::File buffers nothing in the process,
\* so flush returns Ok(()) and hands nothing to stable storage.
File_flush(d) == d

\* LogFile::commit: the header takes the uncommitted frames and is written.
LogCommit ==
    /\ LET s == LogFile_commit(Log(wallog, log_file))
       IN  /\ wallog' = s.wallog
           /\ log_file' = s.log_file
    /\ disk' = File_flush(disk)
    /\ last_call' = ReturnedOk
    /\ UNCHANGED <<compacted, pushed, server_vars, hook_vars, proxy_vars, state_vars, builder_call, rest_vars>>

\* A rollback that keeps the checksum of the frames it discards.
LogRollback_keeps_checksum ==
    /\ log_file' = [log_file EXCEPT !.uncommitted_frame_count = 0]
    /\ last_call' = ReturnedOk
    /\ UNCHANGED <<wallog, compacted, pushed, server_vars, hook_vars, proxy_vars, state_vars, disk, builder_call, rest_vars>>

\* LogFile::rollback
LogRollback ==
    /\ log_file' = LogFile_rollback(Log(wallog, log_file)).log_file
    /\ last_call' = ReturnedOk
    /\ UNCHANGED <<wallog, compacted, pushed, server_vars, hook_vars, proxy_vars, state_vars, disk, builder_call, rest_vars>>

\* What the compactor takes of a log file: its header and the frames its
\* header counts.
sealed(l, f) == [header |-> l.header, frames |-> SubSeq(f.frames, 1, l.header.frame_count)]

\* LogFile::maybe_compact: do_compaction when should_compact.  The new
\* LogFile is made over the empty temp_log, its header is replaced and
\* written, the two files are swapped and the old one goes to the compactor.
MaybeCompact ==
    /\ Len(compacted) < MaxCompactions
    /\ \E elapsed \in BOOLEAN, uuid \in Uuids :
         /\ should_compact(log_file, elapsed)
         /\ LET s == LogFile_do_compaction(Log(wallog, log_file), uuid)
            IN  /\ log_file' = s.log_file
                /\ wallog' = s.wallog
                /\ compacted' = Append(compacted, sealed(log_file, wallog))
    /\ last_call' = ReturnedOk
    /\ UNCHANGED <<pushed, server_vars, hook_vars, proxy_vars, state_vars, disk, builder_call, rest_vars>>

\* The process ends, by a close or a crash between two operations, and the
\* log is opened again: LogFile::new over the file as it is.
Reopen ==
    /\ \E uuid \in Uuids :
         LET new == LogFile_new(wallog, uuid) IN
         /\ log_file' = new.log
         /\ wallog' = new.file
    /\ last_call' = Opened
    /\ UNCHANGED <<compacted, pushed, server_vars, hook_vars, proxy_vars, state_vars, disk, builder_call, rest_vars>>

\* The process crashes inside the write of push_page, which leaves a torn
\* frame at next_byte_offset, and the log is opened again.
CrashInPushPage ==
    /\ next_frame_no(log_file) < MaxFrameNo
    /\ \E uuid \in Uuids :
         LET torn == write_all_at(wallog, TornFrame, next_byte_offset(log_file))
             new == LogFile_new(torn, uuid)
         IN  /\ log_file' = new.log
             /\ wallog' = new.file
    /\ last_call' = Opened
    /\ UNCHANGED <<compacted, pushed, server_vars, hook_vars, proxy_vars, state_vars, disk, builder_call, rest_vars>>

\* ReplicationLogger::get_frame
GetFrame(frame_no) ==
    /\ last_call' = Called("get_frame", Some(frame_no), frame(log_file, wallog, frame_no))
    /\ UNCHANGED <<wallog, log_file, compacted, pushed, server_vars, hook_vars, proxy_vars, state_vars, disk, builder_call, rest_vars>>

NextLog ==
    \/ \E page \in WalPages : PushPage(page)
    \/ LogCommit
    \/ LogRollback
    \/ MaybeCompact
    \/ Reopen
    \/ CrashInPushPage
    \/ \E frame_no \in 0..MaxFrameNo : GetFrame(frame_no)

SpecLog == Init /\ [][NextLog]_vars

\* ---------------------------------------------- the recovery specification
\* The database files recover reads: the bodies of their pages, in order.
DataFiles == SeqsUpTo({0, 1}, MaxFrameNo)

\* A size_after that marks every page as the last one.
size_after_on_every_page(i, num_page) == num_page

\* The size_after recover gives page i, counted from 0, of num_page pages.
recover_size_after(i, num_page) == IF i = num_page - 1 THEN num_page ELSE 0

\* LogFile::reset: the file is truncated to length 0 and opened again.
LogFile_reset(s, uuid) ==
    LET new == LogFile_new(EmptyFile, uuid) IN Log(new.file, new.log)

\* The loop of recover from page i on, page_no being i + 1: each page is
\* pushed and committed; the logs after each turn of the loop, in order.
RECURSIVE recover_loop(_, _, _)
recover_loop(s, data_file, i) ==
    IF i >= Len(data_file) THEN <<>>
    ELSE LET page == WalPage(i + 1, recover_size_after(i, Len(data_file)),
                             data_file[i + 1])
             next == LogFile_commit(LogFile_push_page(s, page))
         IN  <<next>> \o recover_loop(next, data_file, i + 1)

\* ReplicationLogger::recover of a data file over whatever log there was:
\* the log is reset, the snapshots are removed, and the pages of the data
\* file become the frames of the log.
Recover(data_file, uuid) ==
    /\ LET reset == LogFile_reset(Log(wallog, log_file), uuid)
           turns == recover_loop(reset, data_file, 0)
           s == IF turns = <<>> THEN reset ELSE turns[Len(turns)]
       IN  /\ wallog' = s.wallog
           /\ log_file' = s.log_file
           /\ last_call' = Called("recover", Some(data_file),
                                  [k \in 1..Len(turns) |-> turns[k].log_file])
    /\ compacted' = <<>>
    /\ pushed' = [n \in 0..(MaxFrameNo - 1) |-> None]
    /\ UNCHANGED <<server_vars, hook_vars, proxy_vars, state_vars, disk, builder_call, rest_vars>>

NextRecover ==
    \/ \E page \in WalPages : PushPage(page)
    \/ LogCommit
    \/ MaybeCompact
    \/ \E data_file \in DataFiles, uuid \in Uuids : Recover(data_file, uuid)

SpecRecover == Init /\ [][NextRecover]_vars

\* ------------------------------------------------- the hook specification
\* The (page_no, data) pairs PageHdrIter yields for a call of on_frames.
HookPages == {[page_no |-> 1, data |-> 0], [page_no |-> 2, data |-> 1]}

\* The page lists of a call of on_frames: the pager hands over one page or
\* more.
Batches == SeqsUpTo(HookPages, MaxBatch) \ {<<>>}

\* The ntruncate the pager passes: the size of the database with a commit,
\* 0 otherwise.
ntruncate_of(is_commit) == IF is_commit THEN 2 ELSE 0

\* An on_frames call: its page list, ntruncate and is_commit.
FramesCall(pages, ntruncate, is_commit) ==
    [pages |-> pages, ntruncate |-> ntruncate, is_commit |-> is_commit]

\* The process has aborted (std::process::abort).
Aborted == HookRet("on_frames", "abort", TRUE)

\* ReplicationLoggerHookCtx::write_frame
write_frame(buffer, page_no, data) == Append(buffer, WalPage(page_no, 0, data))

\* The loop of on_frames over the page list.
RECURSIVE write_frames(_, _)
write_frames(buffer, pages) ==
    IF pages = <<>> THEN buffer
    ELSE write_frames(write_frame(buffer, Head(pages).page_no, Head(pages).data),
                      Tail(pages))

\* ReplicationLogger::write_pages: push_page of each page, up to the first
\* that fails; `fail` is the index of the page whose write fails, 0 for none.
RECURSIVE write_pages(_, _, _)
write_pages(s, pages, fail) ==
    IF pages = <<>> THEN [ok |-> TRUE, s |-> s]
    ELSE IF fail = 1 THEN [ok |-> FALSE, s |-> LogFile_push_page_fails(s)]
    ELSE write_pages(LogFile_push_page(s, Head(pages)), Tail(pages),
                     IF fail = 0 THEN 0 ELSE fail - 1)

\* A flush that reports Ok whatever write_pages returned.
flush_ignores_errors(buffer, s, size_after, fail) ==
    IF buffer = <<>> THEN [ok |-> TRUE, buffer |-> buffer, s |-> s]
    ELSE LET marked == [buffer EXCEPT ![Len(buffer)].size_after = size_after]
             written == write_pages(s, marked, fail)
         IN  [ok |-> TRUE, buffer |-> <<>>, s |-> written.s]

\* ReplicationLoggerHookCtx::flush: the buffer is cleared only when every
\* page was written.
flush(buffer, s, size_after, fail) ==
    IF buffer = <<>> THEN [ok |-> TRUE, buffer |-> buffer, s |-> s]
    ELSE LET marked == [buffer EXCEPT ![Len(buffer)].size_after = size_after]
             written == write_pages(s, marked, fail)
         IN  [ok |-> written.ok,
              buffer |-> IF written.ok THEN <<>> ELSE marked,
              s |-> written.s]

\* A rollback of the hook that leaves the log as it is.
ctx_rollback_keeps_frames(buffer, s) == [buffer |-> <<>>, s |-> s]

\* ReplicationLoggerHookCtx::rollback
ctx_rollback(buffer, s) == [buffer |-> <<>>, s |-> LogFile_rollback(s)]

\* The frames the underlying xFrames appends to the WAL of the engine: the
\* last frame of a commit carries the size of the database.
wal_frames(c) ==
    [i \in 1..Len(c.pages) |->
        WalPage(c.pages[i].page_no,
                IF c.is_commit /\ i = Len(c.pages) THEN c.ntruncate ELSE 0,
                c.pages[i].data)]

\* The underlying xFrames that succeeds: the frames join the transaction,
\* which a commit makes part of the committed WAL.
orig_frames(w, c) ==
    LET txn == w.txn \o wal_frames(c) IN
    IF c.is_commit THEN [w EXCEPT !.txn = <<>>, !.committed = @ \o txn]
    ELSE [w EXCEPT !.txn = txn]

\* on_frames up to the underlying call: the pages are buffered and flushed
\* to the log; when the flush fails the hook returns SQLITE_IOERR, after
\* which the engine owes the rollback of its transaction.
OnFramesFlush(pages, is_commit, fail) ==
    /\ hook_call = None
    /\ hook_ret # Aborted
    /\ ~wal.undo
    /\ next_frame_no(log_file) + Len(hook_buffer) + Len(pages) <= MaxFrameNo
    /\ fail \in 0..(Len(hook_buffer) + Len(pages))
    /\ LET c == FramesCall(pages, ntruncate_of(is_commit), is_commit)
           flushed == flush(write_frames(hook_buffer, pages), Log(wallog, log_file),
                            c.ntruncate, fail)
       IN  /\ hook_buffer' = flushed.buffer
           /\ wallog' = flushed.s.wallog
           /\ log_file' = flushed.s.log_file
           /\ IF flushed.ok
              THEN /\ hook_call' = Some(c)
                   /\ hook_ret' = NoRet
                   /\ UNCHANGED wal
              ELSE /\ hook_call' = None
                   /\ hook_ret' = HookRet("on_frames", "SQLITE_IOERR", FALSE)
                   /\ wal' = [wal EXCEPT !.undo = TRUE]
    /\ UNCHANGED <<compacted, pushed, last_call, new_frame_notifier, server_vars, proxy_vars, state_vars, disk, builder_call, rest_vars>>

\* on_frames from the underlying call on: when it succeeds for a commit the
\* log is committed, the notifier is given the new top frame number and the
\* log is compacted when it should be; a commit of the log that fails
\* aborts the process.  last_call keeps what maybe_compact saw of the clock
\* and whether it compacted.
OnFramesOrig(rc_ok, commit_ok, elapsed, uuid) ==
    /\ hook_call # None
    /\ hook_call' = None
    /\ LET c == hook_call[1] IN
       IF ~rc_ok
       THEN /\ wal' = [wal EXCEPT !.undo = TRUE]
            /\ hook_ret' = HookRet("on_frames", "SQLITE_ERROR", TRUE)
            /\ UNCHANGED <<wallog, log_file, compacted, new_frame_notifier, last_call>>
       ELSE /\ wal' = orig_frames(wal, c)
            /\ IF ~c.is_commit
               THEN /\ hook_ret' = HookRet("on_frames", "SQLITE_OK", TRUE)
                    /\ UNCHANGED <<wallog, log_file, compacted, new_frame_notifier, last_call>>
               ELSE IF ~commit_ok
               THEN /\ hook_ret' = Aborted
                    /\ UNCHANGED <<wallog, log_file, compacted, new_frame_notifier, last_call>>
               ELSE LET s == LogFile_commit(Log(wallog, log_file))
                        compact == should_compact(s.log_file, elapsed)
                        new == IF compact THEN LogFile_do_compaction(s, uuid) ELSE s
                    IN  /\ compact => Len(compacted) < MaxCompactions
                        /\ new_frame_notifier' = last_frame_no(s.log_file.header)
                        /\ wallog' = new.wallog
                        /\ log_file' = new.log_file
                        /\ compacted' = IF compact
                                         THEN Append(compacted, sealed(s.log_file, s.wallog))
                                         ELSE compacted
                        /\ hook_ret' = HookRet("on_frames", "SQLITE_OK", TRUE)
                        /\ last_call' = Called("maybe_compact", Some(elapsed), compact)
    /\ UNCHANGED <<hook_buffer, pushed, server_vars, proxy_vars, state_vars, disk, builder_call, rest_vars>>

\* on_undo: the rollback of the hook, then the underlying xUndo, which
\* drops the transaction of the engine.
OnUndo ==
    /\ hook_call = None
    /\ hook_ret # Aborted
    /\ LET undone == ctx_rollback(hook_buffer, Log(wallog, log_file)) IN
         /\ hook_buffer' = undone.buffer
         /\ wallog' = undone.s.wallog
         /\ log_file' = undone.s.log_file
    /\ wal' = [wal EXCEPT !.txn = <<>>, !.undo = FALSE]
    /\ hook_ret' = HookRet("on_undo", "SQLITE_OK", TRUE)
    /\ UNCHANGED <<hook_call, compacted, pushed, last_call, new_frame_notifier,
                   server_vars, proxy_vars, state_vars, disk, builder_call, rest_vars>>

NextHook ==
    \/ \E pages \in Batches, is_commit \in BOOLEAN, fail \in 0..MaxBatch :
          OnFramesFlush(pages, is_commit, fail)
    \/ \E rc_ok \in BOOLEAN, commit_ok \in BOOLEAN, elapsed \in BOOLEAN,
          uuid \in Uuids : OnFramesOrig(rc_ok, commit_ok, elapsed, uuid)
    \/ OnUndo

SpecHook == Init /\ [][NextHook]_vars

\* ------------------------------------------ the checkpoint specification
\* The checkpoint modes of the engine: PASSIVE (0), FULL, RESTART, TRUNCATE.
SQLITE_CHECKPOINT_FULL == 1
SQLITE_CHECKPOINT_TRUNCATE == 3
CheckpointModes == 0..SQLITE_CHECKPOINT_TRUNCATE

\* A test that lets every mode but PASSIVE through.
ignored_below_full(emode) == emode < SQLITE_CHECKPOINT_FULL

\* The checkpoint requests on_checkpoint ignores.
ignored(emode) == emode < SQLITE_CHECKPOINT_TRUNCATE

\* The underlying TRUNCATE checkpoint that succeeded: all committed frames
\* are in the database file and the WAL is empty.
orig_checkpoint(w) == [w EXCEPT !.committed = <<>>]

\* The calls on_checkpoint makes on the replicator after the underlying
\* checkpoint, and what it returns; ctx.bottomless_replicator is "None", or
\* a replicator whose generation has seen no commit ("no_commits") or some
\* ("commits").
replicator_checkpoint(replicator, wait_ok, snapshot_ok) ==
    IF replicator = "None" THEN [calls |-> <<>>, rc |-> "SQLITE_OK"]
    ELSE IF replicator = "no_commits"
    THEN [calls |-> <<"commits_in_current_generation">>, rc |-> "SQLITE_OK"]
    ELSE LET waited == <<"commits_in_current_generation", "last_known_frame",
                         "request_flush", "wait_until_committed">>
         IN IF ~wait_ok THEN [calls |-> waited, rc |-> "SQLITE_IOERR_WRITE"]
            ELSE [calls |-> waited \o <<"new_generation", "snapshot_main_db_file">>,
                  rc |-> IF snapshot_ok THEN "SQLITE_OK" ELSE "SQLITE_IOERR_WRITE"]

\* The replicator of a call, whether its wait_until_committed succeeds, and
\* whether its snapshot_main_db_file does when the wait did.
ReplicatorRuns ==
    {<<"None", TRUE, TRUE>>, <<"no_commits", TRUE, TRUE>>, <<"commits", FALSE, TRUE>>,
     <<"commits", TRUE, FALSE>>, <<"commits", TRUE, TRUE>>}

\* ReplicationLoggerHook::on_checkpoint, called by the engine between two
\* write transactions.
OnCheckpoint(emode, orig_ok, replicator, wait_ok, snapshot_ok) ==
    /\ hook_call = None
    /\ hook_ret # Aborted
    /\ wal.txn = <<>>
    /\ ~wal.undo
    /\ IF ignored(emode)
       THEN /\ hook_ret' = HookRet("on_checkpoint", "SQLITE_OK", FALSE)
            /\ checkpoint' = Checkpoint(emode, None, <<>>)
            /\ UNCHANGED wal
       ELSE IF ~orig_ok
       THEN /\ hook_ret' = HookRet("on_checkpoint", "SQLITE_BUSY", TRUE)
            /\ checkpoint' = Checkpoint(emode, Some("SQLITE_BUSY"), <<>>)
            /\ UNCHANGED wal
       ELSE LET r == replicator_checkpoint(replicator, wait_ok, snapshot_ok) IN
            /\ hook_ret' = HookRet("on_checkpoint", r.rc, TRUE)
            /\ checkpoint' = Checkpoint(emode, Some("SQLITE_OK"), r.calls)
            /\ wal' = orig_checkpoint(wal)
    /\ UNCHANGED <<hook_buffer, hook_call, new_frame_notifier, log_vars, server_vars,
                   proxy_vars, state_vars, disk, builder_call, sender, create_vars,
                   injector_vars, frame_no_vars>>

\* The write transactions between the checkpoints meet no error, and the
\* log is rotated by its frame count alone.
NextCheckpoint ==
    \/ \E pages \in Batches, is_commit \in BOOLEAN : OnFramesFlush(pages, is_commit, 0)
    \/ \E uuid \in Uuids \ {log_file.header.db_id} : OnFramesOrig(TRUE, TRUE, FALSE, uuid)
    \/ \E emode \in CheckpointModes, orig_ok \in BOOLEAN, run \in ReplicatorRuns :
          OnCheckpoint(emode, orig_ok, run[1], run[2], run[3])

SpecCheckpoint == Init /\ [][NextCheckpoint]_vars

\* ---------------------------------------------- the builder specification
\* The variables the calls on the builder leave alone.
non_builder_vars == <<channel, conn, wal_committed, timeout_deadline, timed_out, max_size,
                      config, pc, exec, results, is_autocommit_before, cond_vals,
                      query_res, caller_pc, call, reply, ncalls, oneshot, log_vars,
                      hook_vars, proxy_vars, state_vars, disk, rest_vars>>

\* The column lists statements have: none, one column, two columns.
ColumnLists == {<<>>, <<"x">>, <<"x", "y">>}

\* The builder took the call op with outcome r.
BuilderTakes(op, r) ==
    /\ builder' = r.b
    /\ builder_call' = BuilderCall(op, r.st)
    /\ UNCHANGED non_builder_vars

\* The latest call returned Ok and was one of ops: the evaluator goes on.
After(ops) == builder_call.st = "Ok" /\ builder_call.op \in ops

\* Connection::run: builder.init(&self.builder_config), for a new program.
BuilderInit(m) ==
    /\ builder' = builder_init(m)
    /\ builder_call' = BuilderCall("init", "Ok")
    /\ UNCHANGED non_builder_vars

\* execute_step: builder.begin_step(), for the next step of the program.
BuilderBeginStep ==
    /\ After({"init", "finish_step"})
    /\ Len(builder.results) < MaxSteps
    /\ BuilderTakes("begin_step", begin_step(builder))

\* execute_step: builder.step_error(e), for the error of eval_cond or the
\* error execute_query returned at any point before its end.
BuilderStepError(e) ==
    /\ After({"begin_step", "cols_description", "add_row_value", "finish_row"})
    /\ BuilderTakes("step_error", step_error(builder, e))

\* execute_query: builder.cols_description(cols.iter())
BuilderColsDescription(cols) ==
    /\ After({"begin_step"})
    /\ BuilderTakes("cols_description", cols_description(builder, cols))

\* execute_query: builder.add_row_value(val), for the next column of a row.
BuilderAddRowValue(v) ==
    /\ After({"cols_description", "add_row_value", "finish_row"})
    /\ Len(builder.current_row) < Len(builder.current_col_description)
    /\ BuilderTakes("add_row_value", add_row_value(builder, v))

\* execute_query: builder.finish_row(), after the last column of a row.
BuilderFinishRow ==
    /\ After({"add_row_value"})
    /\ Len(builder.current_row) = Len(builder.current_col_description)
    /\ BuilderTakes("finish_row", finish_row(builder))

\* execute_step: builder.finish_step(..), for a disabled step, a step that
\* failed, or a step whose rows are all in.
BuilderFinishStep ==
    /\ After({"begin_step", "step_error", "cols_description", "finish_row"})
    /\ BuilderTakes("finish_step", finish_step(builder, 0, None))

NextBuilder ==
    \/ \E m \in 0..MaxResponseSize : BuilderInit(m)
    \/ BuilderBeginStep
    \/ BuilderStepError(EngineError)
    \/ \E cols \in ColumnLists : BuilderColsDescription(cols)
    \/ BuilderAddRowValue("v")
    \/ BuilderFinishRow
    \/ BuilderFinishStep

SpecBuilder == Init /\ [][NextBuilder]_vars

\* ------------------------------------------------- the open specification
\* What the header of a log file on disk says of its format and of the sqld
\* that wrote it: LogFileHeader.version and LogFileHeader.sqld_version.
HeaderVersions == {1, 2}
SqldVersions == {"current", "older"}

\* The data files open may find: empty, of one page, of two pages.
OpenDataFiles == {<<>>, <<1>>, <<0, 1>>}

\* What ReplicationLogger::open finds in the database directory: the dirty
\* flag it is given, whether "wallog" is absent, what the header of "wallog"
\* says, and "data" (None when there is no such file).  A directory without
\* "data" is a new one: it has no "wallog" either and is not flagged dirty.
OpenInputs ==
    {in \in [dirty : BOOLEAN, fresh : BOOLEAN, version : HeaderVersions,
             sqld_version : SqldVersions,
             data : {None} \cup {Some(d) : d \in OpenDataFiles}] :
        /\ in.data = None => (in.fresh /\ ~in.dirty)
        /\ in.fresh => (in.version = 2 /\ in.sqld_version = "current")}

\* A should_recover that takes an absent log as reason enough.
should_recover_when_fresh(dirty, version, sqld_version, fresh, data_exists) ==
    dirty \/ version < 2 \/ sqld_version # "current" \/ fresh

\* should_recover of ReplicationLogger::open
should_recover(dirty, version, sqld_version, fresh, data_exists) ==
    IF dirty THEN TRUE
    ELSE IF version < 2 \/ sqld_version # "current" THEN TRUE
    ELSE IF fresh /\ data_exists THEN TRUE
    ELSE FALSE

\* ReplicationLogger::open after the process that wrote the log has ended:
\* LogFile::new over "wallog", created empty when absent, then recover or
\* from_log_file; the notifier starts at the header's last_frame_no.  The
\* identifier a new log draws is one no log has yet.
ReplicationLogger_open(in, uuid) ==
    /\ LET file == IF in.fresh THEN EmptyFile ELSE wallog
           new == LogFile_new(file, uuid)
           opened == Log(new.file, new.log)
           recovers == should_recover(in.dirty, in.version, in.sqld_version,
                                      in.fresh, in.data # None)
           data_file == IF in.data = None THEN <<>> ELSE in.data[1]
           turns == recover_loop(LogFile_reset(opened, uuid), data_file, 0)
           s == IF ~recovers THEN opened
                ELSE IF turns = <<>> THEN LogFile_reset(opened, uuid)
                ELSE turns[Len(turns)]
       IN  /\ wallog' = s.wallog
           /\ log_file' = s.log_file
           /\ new_frame_notifier' = last_frame_no(s.log_file.header)
           /\ last_call' = Called("ReplicationLogger::open", in,
                                  IF recovers THEN "recover" ELSE "from_log_file")
    /\ compacted' = <<>>
    /\ pushed' = [n \in 0..(MaxFrameNo - 1) |-> None]
    /\ UNCHANGED <<hook_buffer, hook_call, hook_ret, wal, server_vars, proxy_vars,
                   state_vars, disk, builder_call, rest_vars>>

NextOpen ==
    \/ \E page \in WalPages : PushPage(page)
    \/ LogCommit
    \/ \E in \in OpenInputs, uuid \in Uuids \ {log_file.header.db_id} :
          ReplicationLogger_open(in, uuid)

SpecOpen == Init /\ [][NextOpen]_vars

\* ------------------------------------------------ the proxy specification
\* RwLock::read of async_lock: a shared guard is given whoever else reads.
read(lock) == TRUE

\* RwLock::upgradable_read of async_lock: the guard holds the mutex of the
\* lock, so it is given only while no other upgradable or write guard lives.
upgradable_read(lock) == lock = {}

\* RwLock::write of async_lock: given once no other guard lives.
write(lock) == lock = {}

\* ProxyService::execute up to its first await after the lock: the request
\* takes the upgradable guard and looks its client id up. On a hit it holds
\* the worker and keeps the guard until the function returns; on a miss it
\* keeps the guard while factory.create() runs.
ProxyService_execute(r, client_id) ==
    /\ request[r].at = "idle"
    /\ upgradable_read(clients_lock)
    /\ clients_lock' = clients_lock \cup {r}
    /\ request' = [request EXCEPT ![r] =
                      IF clients[client_id] # None
                      THEN Request("execute_program", Some(client_id), clients[client_id])
                      ELSE Request("create", Some(client_id), None)]
    /\ UNCHANGED <<clients, created, disconnects, server_vars, log_vars, hook_vars, state_vars, disk, builder_call, rest_vars>>

\* factory.create() returns: Ok(db) is a worker nobody holds yet, Err(e)
\* answers the request with Code::Internal and drops the guard.
FactoryCreate(r, ok) ==
    /\ request[r].at = "create"
    /\ IF ok
       THEN /\ created' = Append(created, request[r].client_id[1])
            /\ request' = [request EXCEPT ![r].at = "upgrade",
                                          ![r].db = Some(Len(created) + 1)]
            /\ UNCHANGED clients_lock
       ELSE /\ request' = [request EXCEPT ![r].at = "Internal"]
            /\ clients_lock' = clients_lock \ {r}
            /\ UNCHANGED created
    /\ UNCHANGED <<clients, disconnects, server_vars, log_vars, hook_vars, state_vars, disk, builder_call, rest_vars>>

\* RwLockUpgradableReadGuard::upgrade, lock.insert(client_id, db.clone()),
\* and the write guard is dropped at the end of the match arm.
Upgrade(r) ==
    /\ request[r].at = "upgrade"
    /\ clients' = [clients EXCEPT ![request[r].client_id[1]] = request[r].db]
    /\ clients_lock' = clients_lock \ {r}
    /\ request' = [request EXCEPT ![r].at = "execute_program"]
    /\ UNCHANGED <<created, disconnects, server_vars, log_vars, hook_vars, state_vars, disk, builder_call, rest_vars>>

\* db.execute_program returns and the response is sent; a guard still held
\* is dropped with the function's locals.
execute_program(r) ==
    /\ request[r].at = "execute_program"
    /\ request' = [request EXCEPT ![r].at = "Ok"]
    /\ clients_lock' = clients_lock \ {r}
    /\ UNCHANGED <<clients, created, disconnects, server_vars, log_vars, hook_vars, state_vars, disk, builder_call, rest_vars>>

\* ProxyService::disconnect: the entry is removed under the write guard.
ProxyService_disconnect(client_id) ==
    /\ disconnects[client_id] < MaxDisconnects
    /\ write(clients_lock)
    /\ clients' = [clients EXCEPT ![client_id] = None]
    /\ disconnects' = [disconnects EXCEPT ![client_id] = @ + 1]
    /\ UNCHANGED <<clients_lock, request, created, server_vars, log_vars, hook_vars, state_vars, disk, builder_call, rest_vars>>

NextProxy ==
    \/ \E r \in Requests, client_id \in ClientIds : ProxyService_execute(r, client_id)
    \/ \E r \in Requests, ok \in BOOLEAN : FactoryCreate(r, ok)
    \/ \E r \in Requests : Upgrade(r)
    \/ \E r \in Requests : execute_program(r)
    \/ \E client_id \in ClientIds : ProxyService_disconnect(client_id)

SpecProxy == Init /\ [][NextProxy]_vars

\* --------------------------------------------- the durability specification
\* The kernel writes one dirty part of the file back to stable storage, the
\* header (part 0) or the frame at a place, at a time and in an order of its
\* own choosing: the code calls neither sync_all nor sync_data, and the file
\* is not opened for synchronous writes.
Writeback(part) ==
    /\ IF part = 0
       THEN /\ disk.header # wallog.header
            /\ disk' = [disk EXCEPT !.header = wallog.header]
       ELSE /\ part <= Len(wallog.frames)
            /\ disk.frames[part] # Some(wallog.frames[part])
            /\ disk' = [disk EXCEPT !.frames[part] = Some(wallog.frames[part])]
    /\ UNCHANGED <<log_vars, server_vars, hook_vars, proxy_vars, state_vars, builder_call, rest_vars>>

NextDurable ==
    \/ \E page \in WalPages : PushPage(page)
    \/ LogCommit
    \/ LogRollback
    \/ \E part \in 0..MaxFrameNo : Writeback(part)

SpecDurable == Init /\ [][NextDurable]_vars

\* ------------------------------------------------ the State specification
\* txn_state.step(kind)
StateStep(kind) ==
    /\ Len(stepped) < MaxKinds
    /\ txn_state' = State_step(txn_state, kind)
    /\ stepped' = Append(stepped, kind)
    /\ UNCHANGED <<server_vars, log_vars, hook_vars, proxy_vars, disk, builder_call, rest_vars>>

\* txn_state.reset()
StateReset ==
    /\ Len(stepped) < MaxKinds
    /\ txn_state' = State_reset(txn_state)
    /\ stepped' = Append(stepped, "reset")
    /\ UNCHANGED <<server_vars, log_vars, hook_vars, proxy_vars, disk, builder_call, rest_vars>>

NextState ==
    \/ \E kind \in StmtKinds : StateStep(kind)
    \/ StateReset

SpecState == Init /\ [][NextState]_vars

\* ---------------------------------------------- the create specification
\* LibSqlDbFactory::try_create_db, with create_database returning a
\* connection, the busy error or another error at each attempt.
MaxBusyRetries == 100

BUSY == "SQLITE_BUSY"

\* Result<LibSqlDb>: the connection of the n-th attempt, or
\* Error::LibsqlError(code).
CreateOk(n) == [ok |-> TRUE, conn |-> n, err |-> ""]
CreateErr(code) == [ok |-> FALSE, conn |-> 0, err |-> code]

\* What create_database can return at its n-th call.
CreateResults(n) == {CreateOk(n), CreateErr(BUSY), CreateErr("SQLITE_CANTOPEN")}

\* A match arm that takes every error for the busy one.
is_busy_any(res) == ~res.ok

\* The arm Err(err @ Error::LibsqlError(BUSY)).
is_busy(res) == ~res.ok /\ res.err = BUSY

\* One turn of try_create_db's loop: create_database().await and the match on
\* its result.
TryCreateDb(res) ==
    /\ create_ret = None
    /\ attempts' = Append(attempts, res)
    /\ IF res.ok
       THEN create_ret' = Some(res) /\ UNCHANGED retries
       ELSE IF is_busy(res)
       THEN IF retries < MaxBusyRetries
            THEN retries' = retries + 1 /\ UNCHANGED create_ret
            ELSE create_ret' = Some(res) /\ UNCHANGED retries
       ELSE create_ret' = Some(res) /\ UNCHANGED retries
    /\ UNCHANGED <<server_vars, log_vars, hook_vars, proxy_vars, state_vars, disk,
                   builder_call, sender, checkpoint, injector_vars, frame_no_vars>>

NextCreate == \E res \in CreateResults(Len(attempts) + 1) : TryCreateDb(res)

\* create_database().await and the sleep between two attempts complete.
SpecCreate == Init /\ [][NextCreate]_vars /\ WF_vars(NextCreate)

\* -------------------------------------------- the injector specification
\* FrameInjector::step is called again and again on a replica's connection.
MaxInjectorSteps == 3

\* How the dummy statement ends: it succeeds (the hook was not called), the
\* hook ends it with one of its two codes, the engine fails it with another
\* code, or the error is not an error of the engine.
StatementResults ==
    {"Ok", "SQLITE_EXIT_REPLICATION", "SQLITE_CONTINUE_REPLICATION", "SQLITE_ERROR",
     "not_sqlite"}

\* anyhow::Result<bool>, or "panic".
StepOk(more) == [kind |-> "Ok", more |-> more, err |-> ""]
StepErr(e) == [kind |-> "Err", more |-> FALSE, err |-> e]
StepPanic == [kind |-> "panic", more |-> FALSE, err |-> ""]

\* One call of step: whether the first pragma_update succeeded, how the
\* statement ended ("none" when it was not run), whether the second
\* pragma_update succeeded ("none" when it was not made), what step returned
\* and the pragma after it.
InjectorStep(on, stmt, reset, ret, ws) ==
    [on |-> on, stmt |-> stmt, reset |-> reset, ret |-> ret, ws |-> ws]

\* A step that reports the end of a batch without the reset.
FrameInjector_step_no_reset(ws, on_ok, res, reset_ok) ==
    IF ~on_ok THEN InjectorStep("err", "none", "none", StepErr("pragma_update"), ws)
    ELSE IF res = "SQLITE_EXIT_REPLICATION"
    THEN InjectorStep("ok", res, "none", StepOk(FALSE), "on")
    ELSE IF res = "SQLITE_CONTINUE_REPLICATION"
    THEN InjectorStep("ok", res, "none", StepOk(TRUE), "on")
    ELSE IF res = "Ok" THEN InjectorStep("ok", res, "none", StepPanic, "on")
    ELSE InjectorStep("ok", res, "none", StepErr(res), "on")

\* FrameInjector::step
FrameInjector_step(ws, on_ok, res, reset_ok) ==
    IF ~on_ok THEN InjectorStep("err", "none", "none", StepErr("pragma_update"), ws)
    ELSE IF res = "Ok" THEN InjectorStep("ok", res, "none", StepPanic, "on")
    ELSE IF res = "SQLITE_EXIT_REPLICATION"
    THEN IF reset_ok
         THEN InjectorStep("ok", res, "ok", StepOk(FALSE), "reset")
         ELSE InjectorStep("ok", res, "err", StepErr("pragma_update"), "on")
    ELSE IF res = "SQLITE_CONTINUE_REPLICATION"
    THEN InjectorStep("ok", res, "none", StepOk(TRUE), "on")
    ELSE InjectorStep("ok", res, "none", StepErr(res), "on")

\* The caller of the injector calls step; a panic ends the injector.
InjectorStepCall(on_ok, res, reset_ok) ==
    /\ Len(injector_steps) < MaxInjectorSteps
    /\ \A k \in 1..Len(injector_steps) : injector_steps[k].ret # StepPanic
    /\ LET s == FrameInjector_step(writable_schema, on_ok, res, reset_ok) IN
         /\ injector_steps' = Append(injector_steps, s)
         /\ writable_schema' = s.ws
    /\ UNCHANGED <<server_vars, log_vars, hook_vars, proxy_vars, state_vars, disk,
                   builder_call, sender, create_vars, checkpoint, frame_no_vars>>

NextInjector ==
    \E on_ok \in BOOLEAN, res \in StatementResults, reset_ok \in BOOLEAN :
        InjectorStepCall(on_ok, res, reset_ok)

SpecInjector == Init /\ [][NextInjector]_vars

\* ------------------------------------------- the frame number specification
\* Execute requests of the proxy run programs whose statements write through
\* the WAL hook, one statement at a time under the engine's write lock, and
\* return the notifier's value with their results; the writes meet no error.
\* A request that answers with the value it found when it arrived.
current_frame_no_on_arrival(before, notifier) == before

\* `*self.new_frame_notifier.borrow()` after execute_program has returned.
current_frame_no_read(before, notifier) == notifier

\* The variables the requests leave alone.
non_frame_no_vars == <<server_vars, log_vars, hook_vars, proxy_vars, state_vars, disk,
                       builder_call, sender, create_vars, checkpoint, injector_vars>>

\* ProxyService::execute hands the program to the worker.
ExecArrives(r) ==
    /\ execs[r].at = "idle"
    /\ execs' = [execs EXCEPT ![r] = Exec("execute_program", new_frame_notifier, {}, None)]
    /\ UNCHANGED <<writer, non_frame_no_vars>>

\* A statement of the program of r starts to write: no other statement does.
StatementBegins(r) ==
    /\ execs[r].at = "execute_program"
    /\ writer = None
    /\ hook_call = None
    /\ hook_ret # Aborted
    /\ ~wal.undo
    /\ wal.txn = <<>>
    /\ writer' = Some([exec |-> r, committed |-> wal.committed])
    /\ UNCHANGED <<execs, non_frame_no_vars>>

\* The statement that writes has not committed.
Uncommitted == writer # None /\ wal.committed = writer[1].committed

\* The statement of r ends, after the hook returned and the engine rolled
\* back what it owed: when it committed, the notifier holds what
\* ReplicationLoggerHookCtx::commit sent.
StatementEnds(r) ==
    /\ writer # None
    /\ writer[1].exec = r
    /\ hook_call = None
    /\ ~wal.undo
    /\ wal.txn = <<>>
    /\ execs' = [execs EXCEPT ![r].published =
                    IF Uncommitted THEN @ ELSE @ \cup {new_frame_notifier}]
    /\ writer' = None
    /\ UNCHANGED non_frame_no_vars

\* The worker sends the results of the program and execute_program returns.
ExecResults(r) ==
    /\ execs[r].at = "execute_program"
    /\ IF writer = None THEN TRUE ELSE writer[1].exec # r
    /\ execs' = [execs EXCEPT ![r].at = "results"]
    /\ UNCHANGED <<writer, non_frame_no_vars>>

\* ProxyService::execute reads the notifier and answers.
ExecResponds(r) ==
    /\ execs[r].at = "results"
    /\ execs' = [execs EXCEPT ![r].at = "Ok",
                              ![r].current_frame_no =
                                  Some(current_frame_no_read(execs[r].before,
                                                             new_frame_notifier))]
    /\ UNCHANGED <<writer, non_frame_no_vars>>

NextFrameNo ==
    \/ \E r \in Execs : ExecArrives(r)
    \/ \E r \in Execs : StatementBegins(r)
    \/ /\ Uncommitted
       /\ \E pages \in Batches, is_commit \in BOOLEAN : OnFramesFlush(pages, is_commit, 0)
    \/ /\ writer # None
       /\ \E uuid \in Uuids \ {log_file.header.db_id} : OnFramesOrig(TRUE, TRUE, FALSE, uuid)
    \/ \E r \in Execs : StatementEnds(r)
    \/ \E r \in Execs : ExecResults(r)
    \/ \E r \in Execs : ExecResponds(r)

SpecFrameNo == Init /\ [][NextFrameNo]_vars

\* ------------------------------------------------------------- claims
\* The Statements of a program, in order.
stmts_of(pgm) == [i \in 1..Len(pgm) |-> pgm[i].query.stmt]

\* Every step recorded so far was enabled and succeeded.
AllSucceeded(res) == \A i \in 1..Len(res) : res[i]

\* The step in which run and the callback return the builder and the state.
FinishStep == pc = "run" /\ pc' = "recv" /\ reply'.kind = "ok"

\* C1: when a program without Conds, started in autocommit, has all its steps
\* succeed, the state returned with the builder is the fold of State::step
\* over the statements' kinds from Init (final_state), and it is Txn exactly
\* when the engine is left inside a transaction.
C1_FinalStateIsFold ==
    [][(FinishStep /\ is_autocommit_before /\ AllSucceeded(results)
            /\ \A i \in 1..Len(exec.pgm) : exec.pgm[i].cond = NoCond)
        => /\ reply'.state = final_state("Init", stmts_of(exec.pgm))
           /\ (reply'.state = "Txn" <=> ~is_autocommit(conn'))]_vars

\* C1 witness: the first program of a worker, two steps that both succeeded,
\* returned in state Txn.
C1_Witness ==
    /\ caller_pc = "returned"
    /\ ncalls = 1
    /\ reply.kind = "ok"
    /\ reply.state = "Txn"
    /\ Len(reply.results) = 2
    /\ \A i \in 1..2 : reply.results[i].row_result = "Row"

\* ------------------------------------------------------ claims on Conds
\* The worker is inside run, between two steps or leaving with an error.
InRun == pc \in {"run", "abort"}

\* The 0-based step references of a Cond, left to right.
RECURSIVE refs_of(_)
RECURSIVE refs_of_all(_)
refs_of_all(conds) ==
    IF conds = <<>> THEN <<>> ELSE refs_of(Head(conds)) \o refs_of_all(Tail(conds))

refs_of(cond) ==
    CASE cond.t \in {"Ok", "Err"} -> <<cond.step>>
      [] cond.t = "Not" -> refs_of(cond.cond)
      [] cond.t \in {"And", "Or"} -> refs_of_all(cond.conds)
      [] OTHER -> <<>>

\* The references of a Cond that do not name one of the first n steps.
bad_refs(cond, n) == SelectSeq(refs_of(cond), LAMBDA j : j >= n)

\* What became of step i (1-based) of the running program: it ran and
\* succeeded, it has an error for result, or its Cond disabled it.
step_outcome(i) ==
    IF results[i] THEN "succeeded"
    ELSE IF builder.results[i].row_result = "Error" THEN "failed"
    ELSE "disabled"

\* Boolean logic over the outcomes of the prior steps: Ok is "succeeded", Err
\* is "failed", a disabled step is neither.
RECURSIVE boolean_logic(_, _)
boolean_logic(cond, outcomes) ==
    CASE cond.t = "Ok" -> outcomes[cond.step + 1] = "succeeded"
      [] cond.t = "Err" -> outcomes[cond.step + 1] = "failed"
      [] cond.t = "Not" -> ~boolean_logic(cond.cond, outcomes)
      [] cond.t = "And" ->
            \A n \in 1..Len(cond.conds) : boolean_logic(cond.conds[n], outcomes)
      [] cond.t = "Or" ->
            \E n \in 1..Len(cond.conds) : boolean_logic(cond.conds[n], outcomes)

\* C2: the value of every Cond whose references are all to prior steps is
\* boolean logic over the outcomes of those steps: Ok{j} holds iff step j ran
\* and succeeded, Err{j} iff it failed, neither when step j was disabled; Not,
\* And, Or are negation, conjunction, disjunction.
C2_CondIsBooleanLogic ==
    InRun =>
        \A k \in 1..Len(cond_vals) :
            LET cond == exec.pgm[k].cond IN
            (cond # NoCond /\ bad_refs(cond, k - 1) = <<>>)
                => cond_vals[k] =
                       ROk(boolean_logic(cond, [i \in 1..(k - 1) |-> step_outcome(i)]))

\* Left-to-right evaluation that stops at the first child deciding the value.
RECURSIVE short_circuit(_, _)
RECURSIVE short_circuit_fold(_, _, _)
short_circuit_fold(conds, isAnd, res) ==
    IF conds = <<>> THEN ROk(isAnd)
    ELSE LET y == short_circuit(Head(conds), res) IN
         IF ~y.ok THEN y
         ELSE IF y.val # isAnd THEN y
         ELSE short_circuit_fold(Tail(conds), isAnd, res)

short_circuit(cond, res) ==
    CASE cond.t = "Ok" -> get_step_res(cond.step, res)
      [] cond.t = "Err" ->
            LET r == get_step_res(cond.step, res) IN IF r.ok THEN ROk(~r.val) ELSE r
      [] cond.t = "Not" ->
            LET r == short_circuit(cond.cond, res) IN IF r.ok THEN ROk(~r.val) ELSE r
      [] cond.t = "And" -> short_circuit_fold(cond.conds, TRUE, res)
      [] cond.t = "Or" -> short_circuit_fold(cond.conds, FALSE, res)

\* C3 as stated: And and Or stop at the first child that decides the value, so
\* a step's Cond evaluates to what short-circuit evaluation gives, and a bad
\* reference behind a deciding child does not fail the step.
C3_ShortCircuit ==
    InRun =>
        \A k \in 1..Len(cond_vals) :
            exec.pgm[k].cond # NoCond
                => cond_vals[k] = short_circuit(exec.pgm[k].cond, SubSeq(results, 1, k - 1))

\* The value of a Cond all of whose references are to recorded steps.
RECURSIVE bool_value(_, _)
bool_value(cond, res) ==
    CASE cond.t = "Ok" -> res[cond.step + 1]
      [] cond.t = "Err" -> ~res[cond.step + 1]
      [] cond.t = "Not" -> ~bool_value(cond.cond, res)
      [] cond.t = "And" -> \A n \in 1..Len(cond.conds) : bool_value(cond.conds[n], res)
      [] cond.t = "Or" -> \E n \in 1..Len(cond.conds) : bool_value(cond.conds[n], res)

\* C3, amended: And and Or evaluate every child, left to right, whatever the
\* earlier children gave.  A bad reference anywhere under the And / Or fails
\* the step with InvalidBatchStep of the leftmost one, even behind a child
\* that decides the value; without a bad reference the value is the
\* conjunction / disjunction of all the children.
C3_EvaluatesEveryChild ==
    InRun =>
        \A k \in 1..Len(cond_vals) :
            LET cond == exec.pgm[k].cond
                bad == bad_refs(cond, k - 1)
            IN cond.t \in {"And", "Or"}
                => cond_vals[k] =
                       IF bad # <<>> THEN RErr(Head(bad))
                       ELSE ROk(bool_value(cond, SubSeq(results, 1, k - 1)))

\* C3 witness: a step under And{c1, c2} whose c1 is false and whose c2 has a
\* bad reference was given the error InvalidBatchStep for result.
C3_Witness ==
    /\ pc = "run"
    /\ \E k \in 1..Len(results) :
         LET cond == exec.pgm[k].cond IN
         /\ cond.t = "And"
         /\ Len(cond.conds) = 2
         /\ bad_refs(cond.conds[1], k - 1) = <<>>
         /\ ~bool_value(cond.conds[1], SubSeq(results, 1, k - 1))
         /\ bad_refs(cond.conds[2], k - 1) # <<>>
         /\ builder.results[k] =
                [row_result |-> "Error",
                 error |-> InvalidBatchStep(Head(bad_refs(cond.conds[2], k - 1)))]

\* The step run is about to execute.
next_step == exec.pgm[Len(results) + 1]

\* C4: a step whose Cond has a reference j to itself or a later step is not
\* run on the engine, gets the error InvalidBatchStep(j) for result, counts as
\* failed, and run goes on with the remaining steps.
C4_BadRefFailsOnlyTheStep ==
    [][(pc = "run" /\ Len(results) < Len(exec.pgm)
            /\ bad_refs(next_step.cond, Len(results)) # <<>>)
        => /\ pc' = "run"
           /\ conn' = conn
           /\ wal_committed' = wal_committed
           /\ results' = Append(results, FALSE)
           /\ \E n \in 1..Len(bad_refs(next_step.cond, Len(results))) :
                builder'.results = Append(builder.results,
                    [row_result |-> "Error",
                     error |-> InvalidBatchStep(bad_refs(next_step.cond, Len(results))[n])])]_vars

\* run is about to execute a step.
AtStep == pc = "run" /\ Len(results) < Len(exec.pgm)

\* The result the builder records for a step that returned nothing.
EmptyRow ==
    [row_result |-> "Row", column_descriptions |-> <<>>, rows |-> <<>>,
     affected_row_count |-> 0, last_insert_rowid |-> None]

\* The Cond of the next step has only references to prior steps, and is false.
NextCondFalse ==
    /\ next_step.cond # NoCond
    /\ bad_refs(next_step.cond, Len(results)) = <<>>
    /\ ~bool_value(next_step.cond, results)

\* The Cond of the next step is absent, or true.
NextCondTrue ==
    \/ next_step.cond = NoCond
    \/ /\ bad_refs(next_step.cond, Len(results)) = <<>>
       /\ bool_value(next_step.cond, results)

\* C5: a step whose Cond is false does not reach execute_query; its result is
\* the empty success, and the connection (transaction state and contents),
\* the deadline and the log are as before the step.  A step without a Cond,
\* or with a true one, reaches execute_query.
C5_DisabledStepIsSkipped ==
    [][/\ (AtStep /\ NextCondFalse)
            => /\ pc' = "run"
               /\ query_res' = "none"
               /\ conn' = conn
               /\ timeout_deadline' = timeout_deadline
               /\ wal_committed' = wal_committed
               /\ results' = Append(results, FALSE)
               /\ builder'.results = Append(builder.results, EmptyRow)
       /\ (AtStep /\ NextCondTrue) => query_res' # "none"]_vars

\* C5 witness: Insert; Insert under Err{0}.  The first succeeded, the second
\* was disabled with the empty result, and the table has one row.
C5_Witness ==
    /\ pc = "run"
    /\ exec.pgm = <<Step("INSERT", NoCond), Step("INSERT", CondErr(0))>>
    /\ results = <<TRUE, FALSE>>
    /\ cond_vals[2] = ROk(FALSE)
    /\ builder.results[2] = EmptyRow
    /\ conn = [autocommit |-> TRUE, db |-> 1, pending |-> 0]

\* The result the builder records for a statement the engine failed.
ErrorResult == [row_result |-> "Error", error |-> EngineError]

\* The step recorded the statement's error and run goes on: one more result,
\* the earlier ones untouched, the step seen as failed by later Conds.
ErrorRecorded ==
    /\ pc' = "run"
    /\ results' = Append(results, FALSE)
    /\ builder'.results = Append(builder.results, ErrorResult)
    /\ Len(builder'.results) = Len(results')
    /\ eval_cond(CondOk(Len(results)), results') = ROk(FALSE)
    /\ eval_cond(CondErr(Len(results)), results') = ROk(TRUE)

\* C6 as stated: whenever execute_query fails an enabled step with an error
\* that is not a builder error, the error is the step's result and run goes on.
C6_StepErrorNeverAborts ==
    [][(AtStep /\ query_res' = "Err") => ErrorRecorded]_vars

\* The error's message fits in what is left of the response budget.
ErrorFits == builder.current_size + error_size(EngineError) <= builder.max_size

\* C6, amended: when execute_query fails an enabled step with an error that
\* is not a builder error and the error's message fits in the response
\* budget, the error is the step's result, the earlier results are untouched,
\* later Conds see the step as failed and run goes on; when the message does
\* not fit, run is left with ResponseTooLarge and no result is recorded.
\* While run goes on, results are only ever appended.
C6_StepErrorRecordedIfItFits ==
    [][/\ (AtStep /\ query_res' = "Err")
            => IF ErrorFits THEN ErrorRecorded
               ELSE /\ pc' = "abort"
                    /\ results' = results
                    /\ builder'.results = builder.results
       /\ (pc = "abort" /\ pc' # "abort") => reply' = ReplyErr(ResponseTooLarge)
       /\ (pc = "run" /\ pc' = "run")
            => /\ Len(builder'.results) = Len(results')
               /\ SubSeq(results', 1, Len(results)) = results
               /\ SubSeq(builder'.results, 1, Len(builder.results)) = builder.results
       /\ FinishStep => Len(reply'.results) = Len(exec.pgm)]_vars

\* C6 witness: the first step failed, its error is its result, the second
\* step ran under Err{0} and succeeded.
C6_Witness ==
    /\ pc = "run"
    /\ Len(results) = 2
    /\ results = <<FALSE, TRUE>>
    /\ exec.pgm[1].cond = NoCond
    /\ exec.pgm[2].cond = CondErr(0)
    /\ builder.results[1] = ErrorResult
    /\ builder.results[2].row_result = "Row"

\* ------------------------------------------- claims on the gate and timeout
\* The caller makes a request (execute_program or describe, up to the await).
CallStep == caller_pc = "idle" /\ caller_pc' # "idle"

\* The request made in this step is answered NotAuthorized.
Rejected == caller_pc' = "returned" /\ reply' = ReplyErr(NotAuthorized)

\* The identity may not run a statement of this kind.
Unauthorized(auth, kind) ==
    \/ auth = "Anonymous"
    \/ auth = "ReadOnly" /\ kind \in {"Write", "Other"}

\* Some step of the program may not be run by the identity.
SomeStepUnauthorized(auth, pgm) ==
    \E i \in 1..Len(pgm) : Unauthorized(auth, pgm[i].query.stmt.kind)

\* C7: a program of at least one step is rejected with NotAuthorized exactly
\* when the identity is Anonymous, or ReadOnly with a step of kind Write or
\* Other; FullAccess is never rejected; describe is rejected exactly when the
\* identity is Anonymous.
C7_GateDecision ==
    [][CallStep =>
        LET cb == call'.cb
            auth == call'.auth
        IN /\ (cb.type = "program" /\ cb.pgm # <<>>)
                => (Rejected <=>
                       \/ auth = "Anonymous"
                       \/ /\ auth = "ReadOnly"
                          /\ \E i \in 1..Len(cb.pgm) :
                                cb.pgm[i].query.stmt.kind \in {"Write", "Other"})
           /\ auth = "FullAccess" => ~Rejected
           /\ cb.type = "describe" => (Rejected <=> auth = "Anonymous")]_vars

\* C7 witness: a read-only identity was refused an EXPLAIN.
C7_Witness ==
    /\ caller_pc = "returned"
    /\ reply = ReplyErr(NotAuthorized)
    /\ call = [cb |-> ProgramCb(<<Step("EXPLAIN", NoCond)>>), auth |-> "ReadOnly"]

\* C8: when some step of a program fails the gate, the request is answered
\* NotAuthorized, nothing is put on the worker's channel, and the worker's
\* state (engine contents and transaction state, deadline, shadow log, run) is
\* untouched, also when authorized steps precede the refused one.
C8_RejectedProgramRunsNothing ==
    [][(CallStep /\ call'.cb.type = "program"
            /\ SomeStepUnauthorized(call'.auth, call'.cb.pgm))
        => /\ Rejected
           /\ channel' = channel
           /\ UNCHANGED worker_vars]_vars

\* C8 witness: Select; Insert from a read-only identity was refused, and the
\* worker is as it was created.
C8_Witness ==
    /\ caller_pc = "returned"
    /\ reply = ReplyErr(NotAuthorized)
    /\ call = [cb |-> ProgramCb(<<Step("SELECT", NoCond), Step("INSERT", NoCond)>>),
               auth |-> "ReadOnly"]
    /\ ncalls = 1
    /\ channel = <<>>
    /\ pc = "recv"
    /\ conn = conn_open
    /\ wal_committed = 0
    /\ timeout_deadline = None

\* The armed deadline expires in this step.
DeadlineExpires == timeout_deadline # None /\ timeout_deadline' = None

\* The worker takes a request off its channel in this step.
Receives == channel # <<>> /\ channel' = Tail(channel)

\* C9: when the deadline of an open transaction expires before a request
\* arrives, the transaction is rolled back (its writes are discarded, nothing
\* of it is committed to the table or the log) and the engine is in
\* autocommit; the request the worker receives next is answered
\* LibSqlTxTimeout and leaves the engine, the log and the worker untouched.
C9_TimeoutRollsBackAndFailsNext ==
    [][/\ DeadlineExpires
            => /\ channel = <<>>
               /\ pc = "recv"
               /\ timed_out'
               /\ is_autocommit(conn')
               /\ conn'.pending = 0
               /\ conn'.db = conn.db
               /\ wal_committed' = wal_committed
       /\ timed_out' => (is_autocommit(conn') /\ conn'.pending = 0 /\ pc' = "recv")
       /\ (timed_out /\ Receives)
            => /\ reply' = ReplyErr(LibSqlTxTimeout)
               /\ caller_pc' = "returned"
               /\ UNCHANGED worker_vars]_vars

\* C9 witness: after a timeout, a program made of an Insert was answered
\* LibSqlTxTimeout; the table is empty and the engine is in autocommit.
C9_Witness ==
    /\ timed_out
    /\ caller_pc = "returned"
    /\ reply = ReplyErr(LibSqlTxTimeout)
    /\ call.cb = ProgramCb(<<Step("INSERT", NoCond)>>)
    /\ conn = conn_open
    /\ wal_committed = 0

\* C10: the request answered LibSqlTxTimeout clears timed_out, so that the
\* request after it is run on the engine.
C10_TimeoutFailsOneRequest ==
    [][(timed_out /\ Receives /\ reply' = ReplyErr(LibSqlTxTimeout)) => ~timed_out']_vars

\* C11: whenever the worker waits for its next request with the engine inside
\* a transaction, a deadline is armed.
C11_OpenTransactionHasDeadline ==
    (pc = "recv" /\ ~is_autocommit(conn)) => timeout_deadline # None

\* The worker notices in this step that the deadline has passed.
Expiry == DeadlineExpires \/ (~timed_out /\ timed_out')

\* C12: the deadline expires only while the worker waits for a request, with
\* no program in progress; the worker then rolls the transaction back, sets
\* timed_out, clears the deadline and goes on waiting.  Nothing but an expiry
\* sets timed_out, and outside a program nothing but an expiry changes the
\* connection: without a deadline the waiting worker does not roll back.
C12_ExpiryRollsBackBetweenRequests ==
    [][/\ Expiry
            => /\ pc = "recv" /\ exec = NoCb /\ channel = <<>>
               /\ timeout_deadline # None
               /\ conn' = [autocommit |-> TRUE, db |-> conn.db, pending |-> 0]
               /\ timed_out'
               /\ timeout_deadline' = None
               /\ pc' = "recv"
               /\ UNCHANGED <<channel, wal_committed, exec, results, builder,
                              caller_pc, reply>>
       /\ (pc = "run" \/ timeout_deadline = None) => timed_out' = timed_out
       /\ (pc # "run" /\ timeout_deadline = None) => conn' = conn]_vars

\* C12 witness: after an expiry the worker, without a deadline and in
\* autocommit, is still there to receive the request that was queued next.
C12_Witness ==
    /\ timed_out
    /\ timeout_deadline = None
    /\ pc = "recv"
    /\ is_autocommit(conn)
    /\ channel # <<>>
    /\ caller_pc = "waiting"

\* ------------------------------------------------- claims on the queue
\* The worker takes a request off the channel in this step, or the channel
\* loses requests.
ChannelShrinks == channel' # channel /\ Len(channel') <= Len(channel)

\* C13: the worker takes the oldest request, and only when no request is in
\* progress; a request is queued behind those already there; run works on
\* one callback until it ends with the reply sent (unless its caller gave
\* up); no request is dropped without a reply.
C13_OneAtATimeInOrder ==
    [][/\ \A id \in 1..MaxCalls : oneshot'[id] # "tx_dropped"
       /\ ChannelShrinks
            => /\ pc = "recv"
               /\ exec = NoCb
               /\ channel' = Tail(channel)
               /\ \/ exec' = Head(channel)
                  \/ oneshot'[Head(channel).resp] = "sent"
                  \/ oneshot[Head(channel).resp] = "rx_dropped"
       /\ Len(channel') > Len(channel)
            => /\ Len(channel') = Len(channel) + 1
               /\ SubSeq(channel', 1, Len(channel)) = channel
       /\ (pc \in {"run", "abort"} /\ exec' # exec)
            => /\ exec' = NoCb
               /\ \/ oneshot'[exec.resp] = "sent"
                  \/ oneshot[exec.resp] = "rx_dropped"]_vars

\* The callback of a request whose caller dropped its future ends in this
\* step: its resp.send fails.
SendFails ==
    \/ /\ pc \in {"run", "abort"}
       /\ exec' = NoCb
       /\ oneshot[exec.resp] = "rx_dropped"
    \/ /\ pc = "recv"
       /\ ChannelShrinks
       /\ exec' = NoCb
       /\ oneshot[Head(channel).resp] = "rx_dropped"

\* C14: when the reply of a request cannot be sent because its caller dropped
\* the receiver, the worker stays at its loop with its connection, and the
\* requests queued behind stay queued.
C14_SendFailureIsIgnored ==
    [][SendFails
        => /\ pc' = "recv"
           /\ conn' = conn
           /\ channel' \in {channel, Tail(channel)}
           /\ \A id \in 1..MaxCalls : oneshot'[id] # "tx_dropped"]_vars

\* ------------------------------------------------ claims on builder errors
\* A builder call of the step taken in this step returns ResponseTooLarge.
BuilderCallFails == pc = "run" /\ pc' \in {"abort", "panicked"}

\* C15: when a builder call of a step returns ResponseTooLarge, run is left
\* with that error: no result and no later step, the engine in the
\* transaction state it had before the step; the error is the reply of the
\* whole program and the worker returns to its loop.
C15_BuilderErrorAbortsProgram ==
    [][/\ BuilderCallFails
            => /\ pc' = "abort"
               /\ results' = results
               /\ is_autocommit(conn') = is_autocommit(conn)
       /\ pc = "abort"
            => /\ pc' = "recv"
               /\ reply' = ReplyErr(ResponseTooLarge)
               /\ conn' = conn]_vars

\* ------------------------------------------- claims on the block configuration
\* run executes a step in this step (the configuration store is not written).
StepTaken == AtStep /\ config' = config

\* The statement kinds a configuration blocks: all but TxnEnd under
\* block_reads, Write under block_writes.
MustBlock(kind, cfg) ==
    /\ kind # "TxnEnd"
    /\ cfg.block_reads \/ (kind = "Write" /\ cfg.block_writes)

BlockedResult == [row_result |-> "Error", error |-> Blocked]

\* The step recorded Blocked for result without reaching the engine, and run
\* goes on.
BlockedRecorded ==
    /\ pc' = "run"
    /\ conn' = conn
    /\ wal_committed' = wal_committed
    /\ results' = Append(results, FALSE)
    /\ builder'.results = Append(builder.results, BlockedResult)

\* A step that is not blocked does not get Blocked for result.
NotBlockedResult ==
    pc' = "run" => builder'.results[Len(builder'.results)] # BlockedResult

\* C16 as stated: a step of a kind the configuration of the moment blocks
\* does not reach the engine, has Blocked for result, and run goes on; a step
\* of another kind is not blocked.
C16_BlockedStepFailsAlone ==
    [][StepTaken
        => IF MustBlock(next_step.query.stmt.kind, config)
           THEN BlockedRecorded
           ELSE NotBlockedResult]_vars

\* The message of Blocked fits in what is left of the response budget.
BlockedFits == builder.current_size + error_size(Blocked) <= builder.max_size

\* C16, amended: a step of a kind the configuration of the moment blocks does
\* not reach the engine; it has Blocked for result and run goes on when the
\* message fits in the response budget, and run is left with
\* ResponseTooLarge when it does not; a step of another kind is not blocked.
C16_BlockedStepFailsAloneIfItFits ==
    [][StepTaken
        => IF MustBlock(next_step.query.stmt.kind, config)
           THEN IF BlockedFits THEN BlockedRecorded
                ELSE /\ pc' = "abort"
                     /\ conn' = conn
                     /\ wal_committed' = wal_committed
                     /\ results' = results
                     /\ builder'.results = builder.results
           ELSE NotBlockedResult]_vars

\* C16 witness: with only block_writes set, the Insert of [Insert; Commit] was
\* blocked and the Commit that followed ended the transaction.
C16_Witness ==
    /\ pc = "run"
    /\ config = [block_reads |-> FALSE, block_writes |-> TRUE]
    /\ exec.pgm = <<Step("INSERT", NoCond), Step("COMMIT", NoCond)>>
    /\ results = <<FALSE, TRUE>>
    /\ builder.results[1] = BlockedResult
    /\ conn = [autocommit |-> TRUE, db |-> 1, pending |-> 0]

\* ------------------------------------------------- claims on the log
\* A value is a frame, and not an error of the lookup.
IsFrame(x) == "frame_no" \in DOMAIN x

\* The frame is the one push_page last wrote under frame number n: its
\* frame_no, page_no, size_after and page body.
Written(n, fr) ==
    /\ IsFrame(fr)
    /\ pushed[n] # None
    /\ fr.frame_no = n
    /\ fr.page_no = pushed[n][1].page_no
    /\ fr.size_after = pushed[n][1].size_after
    /\ fr.data = pushed[n][1].data

committed_frames(l, f) == SubSeq(f.frames, 1, l.header.frame_count)

\* The checksum of the last committed frame of a log, or start_checksum.
last_checksum(l, f) ==
    IF l.header.frame_count = 0 THEN l.header.start_checksum
    ELSE f.frames[l.header.frame_count].checksum

\* The step ends with LogFile::new over the log file.
Opens == last_call' = Opened

\* C18: opening the log again after a close or a crash, whatever was written
\* past the committed frames, yields the same start_frame_no and frame_count,
\* the same committed frames with the same checksums, no uncommitted frame,
\* and a rolling checksum equal to the checksum of the last committed frame,
\* or to start_checksum when there is none.
C18_ReopenKeepsCommitted ==
    [][Opens =>
        /\ log_file'.header.start_frame_no = log_file.header.start_frame_no
        /\ log_file'.header.frame_count = log_file.header.frame_count
        /\ committed_frames(log_file', wallog') = committed_frames(log_file, wallog)
        /\ log_file'.uncommitted_frame_count = 0
        /\ frame(log_file', wallog', next_frame_no(log_file')) = Ahead
        /\ log_file'.uncommitted_checksum = last_checksum(log_file, wallog)
        /\ log_file'.commited_checksum = last_checksum(log_file, wallog)]_vars

\* The log was opened over a file that holds committed frames and, past
\* them, frames that were never committed.
C18_Witness ==
    /\ last_call = Opened
    /\ log_file.header.frame_count > 0
    /\ Len(wallog.frames) > log_file.header.frame_count

\* C19: each committed frame's checksum is the CRC-64 of its page body seeded
\* with the checksum of the committed frame before it, or with the header's
\* start_checksum for the first frame of the segment.
C19_ChecksumChain ==
    \A k \in 1..log_file.header.frame_count :
        wallog.frames[k].checksum =
            crc64(IF k = 1 THEN log_file.header.start_checksum
                  ELSE wallog.frames[k - 1].checksum,
                  wallog.frames[k].data)

\* The segments of the log over its life, oldest first: those handed to the
\* compactor, then the committed part of the live one.
segments == Append(compacted, sealed(log_file, wallog))

\* The frame at index k of each segment is numbered start_frame_no + k, the
\* first segment starts at 0, and each later one starts where the segment
\* before it ends, under the same db_id.
Dense(segs) ==
    /\ segs[1].header.start_frame_no = 0
    /\ \A i \in 1..Len(segs) :
         /\ \A k \in 1..segs[i].header.frame_count :
              segs[i].frames[k].frame_no = segs[i].header.start_frame_no + (k - 1)
         /\ i > 1 =>
              /\ segs[i].header.start_frame_no =
                     segs[i - 1].header.start_frame_no + segs[i - 1].header.frame_count
              /\ segs[i].header.db_id = segs[i - 1].header.db_id

\* Every committed frame of segs is the same frame, in the same segment at
\* the same index, of later.
Kept(segs, later) ==
    /\ Len(later) >= Len(segs)
    /\ \A i \in 1..Len(segs) :
         /\ later[i].header.frame_count >= segs[i].header.frame_count
         /\ \A k \in 1..segs[i].header.frame_count :
              later[i].frames[k] = segs[i].frames[k]

\* The step is a compaction: one more log file goes to the compactor.
Rotates == Len(compacted') = Len(compacted) + 1

\* C20: over the life of a log, across push_page, rollback, commit and
\* compaction, the committed frames are numbered densely from start_frame_no
\* in each segment and from segment to segment, a committed frame never
\* changes, and a rotated segment starts at old.start_frame_no +
\* old.frame_count with frame_count 0 and the same db_id.
C20_FrameNumbersDense ==
    [][/\ Dense(segments')
       /\ Kept(segments, segments')
       /\ Rotates =>
            /\ log_file'.header.start_frame_no =
                   log_file.header.start_frame_no + log_file.header.frame_count
            /\ log_file'.header.frame_count = 0
            /\ log_file'.header.db_id = log_file.header.db_id
            /\ wallog'.header = Some(log_file'.header)]_vars

\* A rotated segment holds a committed frame after a segment that held
\* one, and a rolled back frame lies past it.
C20_Witness ==
    /\ Len(compacted) > 0
    /\ compacted[1].header.frame_count > 0
    /\ log_file.header.frame_count > 0
    /\ log_file.uncommitted_frame_count = 0
    /\ Len(wallog.frames) > log_file.header.frame_count

\* The step is a push_page: one more uncommitted frame.
Pushes == log_file'.uncommitted_frame_count = log_file.uncommitted_frame_count + 1

\* The step is a rollback that discards frames: the uncommitted frames are
\* gone while the log is neither committed, opened again nor rotated.
RollsBack ==
    /\ log_file.uncommitted_frame_count > 0
    /\ log_file'.uncommitted_frame_count = 0
    /\ log_file'.header = log_file.header
    /\ ~Opens

\* The step is within one segment: no compaction.
SameSegment == compacted' = compacted

\* What get_frame returns for every frame number.
readable(l, f) == [n \in 0..MaxFrameNo |-> frame(l, f, n)]

\* C21: frame_count changes only in commit, by the number of uncommitted
\* frames; push_page leaves frame_count and the readable frames unchanged;
\* rollback leaves frame_count and the committed frames unchanged, and
\* resets the uncommitted count to 0 and the rolling checksum to the
\* checksum last committed; a push_page with no uncommitted frame before it
\* takes the frame number and the place next to the committed frames.
C21_FrameCountOnlyInCommit ==
    [][/\ (SameSegment /\ log_file'.header.frame_count # log_file.header.frame_count) =>
            /\ log_file'.header.frame_count =
                   log_file.header.frame_count + log_file.uncommitted_frame_count
            /\ log_file'.uncommitted_frame_count = 0
            /\ log_file'.commited_checksum = log_file.uncommitted_checksum
            /\ wallog'.header = Some(log_file'.header)
       /\ Pushes =>
            /\ log_file'.header = log_file.header
            /\ wallog'.header = wallog.header
            /\ readable(log_file', wallog') = readable(log_file, wallog)
            /\ log_file.uncommitted_frame_count = 0 =>
                 LET place == log_file.header.frame_count + 1 IN
                 /\ Len(wallog'.frames) >= place
                 /\ wallog'.frames[place].frame_no =
                        log_file.header.start_frame_no + log_file.header.frame_count
       /\ RollsBack =>
            /\ wallog' = wallog
            /\ committed_frames(log_file', wallog') = committed_frames(log_file, wallog)
            /\ log_file'.uncommitted_checksum = last_checksum(log_file, wallog)]_vars

\* ------------------------------------------------- claims on the hook
\* The committed frames of all segments, oldest first.
RECURSIVE all_frames(_)
all_frames(segs) ==
    IF segs = <<>> THEN <<>> ELSE Head(segs).frames \o all_frames(Tail(segs))

\* The page of a frame: its page_no, size_after and body.
page_of(fr) == WalPage(fr.page_no, fr.size_after, fr.data)

\* The pages of the committed frames of the log over its life, in order.
committed_pages ==
    LET all == all_frames(segments) IN [i \in 1..Len(all) |-> page_of(all[i])]

LogCommitted ==
    /\ hook_call # None
    /\ hook_call[1].is_commit
    /\ hook_ret' = HookRet("on_frames", "SQLITE_OK", TRUE)

\* The frame number of the last committed frame of a log.
last_committed_no(l) == l.header.start_frame_no + l.header.frame_count - 1

\* C23: the value published on the notifier after a commit of the log is
\* the frame number of the last committed frame, and the published value
\* never decreases.
C23_NotifierIsLastFrameNo ==
    [][/\ LogCommitted => new_frame_notifier' = last_committed_no(log_file')
       /\ new_frame_notifier' >= new_frame_notifier]_vars

\* ------------------------------------------------- claims on recovery
\* C24: after the recovery of a data file of N pages the log has
\* start_frame_no 0 and frame_count N, frame i holds page i + 1 with its
\* body, size_after is 0 except N on the last frame, every page was
\* committed on its own, and the checksums chain from the seed 0.
C24_RecoveredLog ==
    last_call.op = "recover" =>
        LET data_file == last_call.arg[1]
            N == Len(data_file)
            turns == last_call.res
        IN  /\ log_file.header.start_frame_no = 0
            /\ log_file.header.frame_count = N
            /\ log_file.header.start_checksum = 0
            /\ log_file.uncommitted_frame_count = 0
            /\ wallog.header = Some(log_file.header)
            /\ Len(wallog.frames) = N
            /\ \A i \in 0..(N - 1) :
                 LET fr == frame(log_file, wallog, i) IN
                 /\ IsFrame(fr)
                 /\ fr.frame_no = i
                 /\ fr.page_no = i + 1
                 /\ fr.data = data_file[i + 1]
                 /\ fr.size_after = IF i = N - 1 THEN N ELSE 0
                 /\ fr.checksum =
                        crc64(IF i = 0 THEN 0 ELSE frame(log_file, wallog, i - 1).checksum,
                              data_file[i + 1])
            /\ Len(turns) = N
            /\ \A k \in 1..N :
                 /\ turns[k].header.frame_count = k
                 /\ turns[k].uncommitted_frame_count = 0

\* A data file of two pages or more was recovered, into a log of a new
\* database identifier.
C24_Witness ==
    /\ last_call.op = "recover"
    /\ Len(last_call.arg[1]) >= 2
    /\ log_file.header.db_id # "uuid1"

\* ------------------------------------------------- claims on the proxy
\* The requests that hold a worker: those past the lookup or the factory.
holding(c) ==
    {r \in Requests : request[r].client_id = Some(c) /\ request[r].db # None}

\* A request gets hold of a worker in this step.
Takes(r) == request[r].db = None /\ request'[r].db # None

\* What C25 says of one step of the service.
OneWorkerPerClient ==
    /\ \A r \in Requests :
        Takes(r) =>
          LET id == request'[r].client_id[1] IN
            IF clients[id] # None
            THEN request'[r].db = clients[id] /\ created' = created
            ELSE /\ created' = Append(created, id)
                 /\ request'[r].db = Some(Len(created'))
                 /\ \A q \in Requests : request[q].db # request'[r].db
                 /\ \A q \in Requests \ {r} :
                       request[q].client_id = Some(id)
                         => request[q].at \notin {"create", "upgrade"}
    /\ \A c \in ClientIds :
        /\ clients'[c] # clients[c] =>
              \/ clients'[c] = None /\ disconnects'[c] = disconnects[c] + 1
              \/ /\ clients[c] = None
                 /\ \E q \in Requests :
                       /\ request[q] = Request("upgrade", Some(c), clients'[c])
                       /\ request'[q].at = "execute_program"
        /\ disconnects'[c] # disconnects[c] => clients'[c] = None
    /\ \A r \in Requests :
        (request'[r].at = "execute_program" /\ request[r].at # "execute_program")
          => request'[r].db = clients'[request'[r].client_id[1]]

\* C25: the map keeps at most one worker per client id. A request takes a
\* worker the factory made only while its client id has no entry and no other
\* request of that client id is between its miss and its insert, and that
\* worker is one no request held before; a request whose client id has an entry takes
\* the worker of the entry; an entry changes only by an insert into a missing
\* entry or by disconnect, which removes it; and every request starts its
\* program on the worker of its client id's entry.
C25_OneWorkerPerClient == [][OneWorkerPerClient]_vars

\* Witness of C25: two requests of one client run on the one worker made for
\* it, a third request of that client found the worker gone after a
\* disconnect and holds a second one.
C25_Witness ==
    \E c \in ClientIds : \E r1, r2, r3 \in Requests :
        /\ r1 # r2
        /\ request[r1] = Request("execute_program", Some(c), Some(1))
        /\ request[r2] = Request("Ok", Some(c), Some(1))
        /\ request[r3] = Request("execute_program", Some(c), Some(2))
        /\ created = <<c, c>>
        /\ clients[c] = Some(2)

\* ------------------------------------------------- claims on State
\* The transition table, row by row: Invalid first, then the kinds that are
\* not transaction control, then the two legal moves; the rest is Invalid.
table(old, kind) ==
    IF old = "Invalid" THEN "Invalid"
    ELSE IF kind \in {"Read", "Write", "Other"} THEN old
    ELSE IF old = "Init" /\ kind = "TxnBegin" THEN "Txn"
    ELSE IF old = "Txn" /\ kind = "TxnEnd" THEN "Init"
    ELSE "Invalid"

\* C26: every call of step moves the State as the table says, so Invalid is
\* kept by every statement kind; reset yields Init from any state, and no
\* other call leaves Invalid.
C26_TransitionTable ==
    [][stepped' # stepped =>
         LET called == stepped'[Len(stepped')] IN
           /\ called \in StmtKinds => txn_state' = table(txn_state, called)
           /\ called = "reset" => txn_state' = "Init"
           /\ (txn_state = "Invalid" /\ txn_state' # "Invalid") => called = "reset"
      ]_vars

\* Witness of C26: an Invalid State stayed Invalid under a step and was made
\* Init by reset.
C26_Witness ==
    /\ txn_state = "Init"
    /\ stepped = <<"TxnEnd", "TxnBegin", "reset">>

\* ------------------------------------------- claims on the deadline's end
\* C27: whenever the worker waits for its next request with the engine in
\* autocommit, no deadline is armed, so that no expiry can follow a
\* transaction that was committed or rolled back in time.
C27_NoDeadlineInAutocommit ==
    (pc = "recv" /\ is_autocommit(conn)) => timeout_deadline = None

\* ------------------------------------------ claims on the rotated segment
\* C28: the first frame pushed into a rotated segment has the checksum
\* CRC-64(header.start_checksum, page body), which is what a LogFile opened
\* on that segment's file computes for the same page.
C28_RotatedSegmentSeed ==
    [][(/\ Pushes
        /\ compacted # <<>>
        /\ log_file.header.frame_count = 0
        /\ log_file.uncommitted_frame_count = 0)
         => /\ wallog'.frames[1].checksum =
                  crc64(log_file.header.start_checksum, wallog'.frames[1].data)
            /\ wallog'.frames[1].checksum =
                  compute_checksum(LogFile_new(wallog, "uuid1").log,
                                   pushed'[log_file.header.start_frame_no][1])
      ]_vars

\* ------------------------------------------ claims on on_frames' outcomes
\* The step is the first half of an on_frames whose flush succeeded: the
\* underlying call is made next.
CallsOrig == hook_call = None /\ hook_call' # None

\* The step is an on_frames that returned from its flush.
FlushFails == hook_call = None /\ hook_call' = None /\ hook_ret'.call = "on_frames"

\* The step is the second half of an on_frames: the underlying call and
\* what follows it.
OrigReturns == hook_call # None /\ hook_call' = None

\* The underlying call of the step succeeded.
OrigOk == wal' = orig_frames(wal, hook_call[1])

\* The committed part of the log is the same after the step: the header of
\* the live segment, in memory and in the file, and every committed frame.
CommittedUnchanged ==
    /\ log_file'.header = log_file.header
    /\ wallog'.header = wallog.header
    /\ segments' = segments

\* The header's count of committed frames is advanced by the step, by the
\* frames that were uncommitted; a compaction in the same call moves them
\* to the sealed segment.
FrameCountAdvanced ==
    /\ last_frame_no(log_file'.header) =
           last_frame_no(log_file.header) + log_file.uncommitted_frame_count
    /\ log_file.uncommitted_frame_count > 0
    /\ Kept(segments, segments')
    /\ Len(all_frames(segments')) =
           Len(all_frames(segments)) + log_file.uncommitted_frame_count

\* The pages of the call were appended, uncommitted, by the step.
Appended(c) ==
    LET base == log_file.header.frame_count + log_file.uncommitted_frame_count
        n == Len(c.pages)
    IN  /\ log_file'.uncommitted_frame_count = log_file.uncommitted_frame_count + n
        /\ \A k \in 1..n :
              page_of(wallog'.frames[base + k]) = wal_frames(c)[k]

\* What C29 says of the flush, of a failed underlying call and of a call
\* that is not a commit.
OnFramesOutcomes ==
    /\ CallsOrig => (Appended(hook_call'[1]) /\ CommittedUnchanged /\ wal' = wal)
    /\ FlushFails
         => /\ hook_ret' = HookRet("on_frames", "SQLITE_IOERR", FALSE)
            /\ wal'.txn = wal.txn /\ wal'.committed = wal.committed
            /\ CommittedUnchanged
    /\ (OrigReturns /\ ~(OrigOk /\ hook_call[1].is_commit)) => CommittedUnchanged

C30_DurableHeaderCoversDurableFrames ==
    disk.header # None =>
        \A k \in 1..disk.header[1].frame_count :
            /\ disk.frames[k] # None
            /\ disk.frames[k] = Some(wallog.frames[k])

\* ------------------------------------------------ claims on compaction
\* The step is the end of a commit in on_frames: the underlying call
\* committed and so did the log.
CommitEnds ==
    /\ OrigReturns
    /\ OrigOk
    /\ hook_call[1].is_commit
    /\ hook_ret' # Aborted

OpensLogger == last_call'.op = "ReplicationLogger::open" /\ last_call' # last_call

\* What open leaves when it recovers: the log of the pages of the data file
\* and nothing else.
RecoveredFrom(data_file) ==
    /\ log_file'.header.start_frame_no = 0
    /\ log_file'.header.frame_count = Len(data_file)
    /\ Len(wallog'.frames) = Len(data_file)
    /\ \A i \in 1..Len(data_file) :
         /\ wallog'.frames[i].page_no = i
         /\ wallog'.frames[i].data = data_file[i]

\* What open leaves when it does not recover: the log as it was found,
\* a new empty one where there was none.
UsedUnchanged(in) ==
    IF in.fresh
    THEN log_file'.header.frame_count = 0 /\ wallog'.frames = <<>>
    ELSE /\ wallog' = wallog
         /\ log_file'.header = wallog.header[1]

\* C32 as stated: open recovers exactly when the log file is absent, its
\* version is below 2, it was written by another sqld version or the
\* database is flagged dirty; otherwise the log is used unchanged.
C32_OpenRecovers ==
    [][OpensLogger =>
         LET in == last_call'.arg IN
         IF in.fresh \/ in.version < 2 \/ in.sqld_version # "current" \/ in.dirty
         THEN last_call'.res = "recover"
              /\ RecoveredFrom(IF in.data = None THEN <<>> ELSE in.data[1])
         ELSE last_call'.res = "from_log_file" /\ UsedUnchanged(in)]_vars

\* C32, amended: an absent log file leads to recovery only when the data
\* file exists; in a directory with neither file open starts a new empty
\* log without recovery.
C32_OpenRecoversFromData ==
    [][OpensLogger =>
         LET in == last_call'.arg IN
         IF \/ in.fresh /\ in.data # None
            \/ in.version < 2 \/ in.sqld_version # "current" \/ in.dirty
         THEN last_call'.res = "recover" /\ RecoveredFrom(in.data[1])
         ELSE last_call'.res = "from_log_file" /\ UsedUnchanged(in)]_vars

\* Witness of C32: a log with a committed frame, of the current version and
\* not dirty, was opened and kept; its data file has other pages.
C32_Witness ==
    /\ last_call.op = "ReplicationLogger::open"
    /\ last_call.res = "from_log_file"
    /\ ~last_call.arg.fresh
    /\ log_file.header.frame_count > 0
    /\ last_call.arg.data # None
    /\ Len(last_call.arg.data[1]) # log_file.header.frame_count

\* ------------------------------------------------ claims on the builder
\* The size the builder accounts for.
accounted(b) == b.current_size + b.current_step_size

\* The call of this step was refused for its size.
Refused(op) == builder_call' = BuilderCall(op, "TooLarge") /\ builder_call' # builder_call

\* A step that was disabled by its condition: finish_step right after
\* begin_step adds nothing to the budget.
DisabledStepIsFree ==
    (builder_call.op = "begin_step" /\ builder_call'.op = "finish_step")
        => builder'.current_size = builder.current_size

\* The calls are refused exactly when what they add does not fit.
RefusedWhenOver ==
    /\ builder_call'.op = "add_row_value" /\ builder_call' # builder_call
         => (Refused("add_row_value") <=> data_len("v") + accounted(builder) > builder.max_size)
    /\ builder_call'.op = "step_error" /\ builder_call' # builder_call
         => (Refused("step_error")
               <=> error_size(EngineError) + builder.current_size > builder.max_size)
    /\ builder_call'.st = "TooLarge"
         => builder_call'.op \in {"cols_description", "add_row_value", "step_error"}

\* C33 as stated: in every state of the builder current_size +
\* current_step_size is at most max_size; a cols_description, add_row_value
\* or step_error that would exceed the limit returns ResponseTooLarge and
\* leaves the builder as it was; a disabled step adds nothing.
C33_BudgetKept ==
    [][/\ accounted(builder') <= builder'.max_size
       /\ RefusedWhenOver
       /\ builder_call'.st = "TooLarge" => builder' = builder
       /\ DisabledStepIsFree]_vars

\* C33, amended: from begin_step to finish_step current_size +
\* current_step_size is at most max_size, and current_size is at most
\* max_size always, current_step_size keeping the size of the finished step
\* until the next begin_step; a refused add_row_value or step_error leaves the
\* builder as it was, a refused cols_description keeps the columns that fit
\* before the one that did not, in the step's accumulators only.
C33_BudgetKeptWithinStep ==
    [][/\ builder_call'.op # "finish_step" => accounted(builder') <= builder'.max_size
       /\ builder'.current_size <= builder'.max_size
       /\ RefusedWhenOver
       /\ (Refused("add_row_value") \/ Refused("step_error")) => builder' = builder
       /\ Refused("cols_description")
            => /\ builder'.results = builder.results
               /\ builder'.current_size = builder.current_size
               /\ builder'.current_step_size =
                      builder.current_step_size + Len(builder'.current_col_description)
       /\ DisabledStepIsFree]_vars

\* Witness of C33: a second step was refused its second column after the
\* first step had used part of the budget.
C33_Witness ==
    /\ builder_call = BuilderCall("cols_description", "TooLarge")
    /\ Len(builder.results) = 1
    /\ builder.current_size > 0
    /\ Len(builder.current_col_description) = 1
    /\ accounted(builder) = builder.max_size

\* C34: each finish_step appends exactly one entry to the results, and no
\* other call changes them: an Error entry when step_error was called in the
\* step, a ResultRows entry with the step's columns and rows otherwise;
\* after finish_step the error, the rows, the current row and the columns
\* are empty, and no call of the evaluator fails an assertion.
C34_OneEntryPerStep ==
    [][/\ builder_call'.st # "Panic"
       /\ (builder_call'.op = "finish_step" /\ builder_call' # builder_call)
            => /\ Len(builder'.results) = Len(builder.results) + 1
               /\ SubSeq(builder'.results, 1, Len(builder.results)) = builder.results
               /\ LET entry == builder'.results[Len(builder'.results)] IN
                    IF builder_call.op = "step_error"
                    THEN entry = [row_result |-> "Error", error |-> EngineError]
                    ELSE /\ entry.row_result = "Row"
                         /\ entry.column_descriptions = builder.current_col_description
                         /\ entry.rows = builder.current_rows
               /\ builder'.current_err = None
               /\ builder'.current_rows = <<>>
               /\ builder'.current_row = <<>>
               /\ builder'.current_col_description = <<>>
       /\ builder_call'.op \notin {"finish_step", "init"}
            => builder'.results = builder.results]_vars

\* Witness of C34: a step ended in an Error entry and the step after it in
\* a ResultRows entry with a column, which filled the budget.
C34_Witness ==
    /\ builder_call = BuilderCall("finish_step", "Ok")
    /\ Len(builder.results) = 2
    /\ builder.results[1].row_result = "Error"
    /\ builder.results[2].row_result = "Row"
    /\ builder.results[2].column_descriptions # <<>>
    /\ builder.current_size = builder.max_size


\* -------------------------------------------------------------------- C35
\* The worker thread is gone: it left its loop through break, it returned
\* from the loop after a failed callback, or it unwound from a panic; each
\* drops the Connection.
WorkerGone == pc \in {"disconnected", "closed", "panicked"}

\* C35: once every handle of a worker is dropped, the worker thread
\* eventually ends, after it ran what was queued, whether its connection has
\* an armed deadline or none.
C35_WorkerEndsAfterDrop == (sender = "dropped") ~> WorkerGone

\* The loop was left through break by a worker that waited with an armed
\* deadline, and by one that waited without.
C35_Witness ==
    /\ sender = "dropped"
    /\ pc = "disconnected"
    /\ timeout_deadline # None
    /\ ncalls > 0


\* -------------------------------------------------------------------- C36
\* What the latest call of create_database returned.
LatestAttempt == attempts'[Len(attempts')]

\* One turn of try_create_db's loop ends the call or counts a retry as the
\* claim says.
CreateTurn ==
    attempts' # attempts =>
        /\ create_ret = None
        /\ \A k \in 1..Len(attempts) : attempts[k] = CreateErr(BUSY)
        /\ LatestAttempt.ok => create_ret' = Some(LatestAttempt) /\ retries' = retries
        /\ (~LatestAttempt.ok /\ LatestAttempt.err # BUSY) =>
               create_ret' = Some(LatestAttempt) /\ retries' = retries
        /\ LatestAttempt = CreateErr(BUSY) =>
               IF retries < MaxBusyRetries
               THEN create_ret' = None /\ retries' = retries + 1
               ELSE create_ret' = Some(CreateErr(BUSY)) /\ retries' = retries
        /\ retries' <= MaxBusyRetries
        /\ Len(attempts') <= MaxBusyRetries + 1

\* C36: try_create_db returns: the first connection create_database
\* delivers, at once any error other than busy, and the busy error when the
\* attempt after the 100th retry is busy too; it retries after a busy
\* attempt only, and never more than 100 times.
C36_TryCreateDbReturns == [][CreateTurn]_vars /\ <>(create_ret # None)

\* Every attempt was busy: 100 retries, then the busy error.
C36_Witness ==
    /\ create_ret = Some(CreateErr(BUSY))
    /\ retries = MaxBusyRetries
    /\ Len(attempts) = MaxBusyRetries + 1


\* -------------------------------------------------------------------- C37
\* on_checkpoint returns.
CheckpointReturns ==
    /\ hook_ret'.call = "on_checkpoint"
    /\ <<hook_ret, checkpoint, wal>>' # <<hook_ret, checkpoint, wal>>

\* What one on_checkpoint does, by its mode.
CheckpointOutcome ==
    CheckpointReturns =>
        /\ checkpoint'.emode < SQLITE_CHECKPOINT_TRUNCATE =>
               /\ hook_ret'.rc = "SQLITE_OK"
               /\ checkpoint'.orig_rc = None
               /\ checkpoint'.calls = <<>>
               /\ UNCHANGED <<wal, log_vars, hook_buffer, new_frame_notifier>>
        /\ checkpoint'.orig_rc # None <=> checkpoint'.emode >= SQLITE_CHECKPOINT_TRUNCATE
        /\ hook_ret'.orig <=> checkpoint'.orig_rc # None
        /\ checkpoint'.calls # <<>> => checkpoint'.orig_rc = Some("SQLITE_OK")
        /\ UNCHANGED <<log_vars, hook_buffer, new_frame_notifier>>

\* C37: an on_checkpoint with a mode below TRUNCATE returns SQLITE_OK without
\* the underlying checkpoint and leaves the WAL, the shadow log and the
\* replicator alone; a TRUNCATE one reaches the underlying checkpoint, and
\* the replicator is called only when that one returned SQLITE_OK.
C37_WeakCheckpointIgnored == [][CheckpointOutcome]_vars

\* A RESTART checkpoint was ignored while the WAL and the log hold committed
\* frames.
C37_Witness ==
    /\ hook_ret = HookRet("on_checkpoint", "SQLITE_OK", FALSE)
    /\ checkpoint = Checkpoint(2, None, <<>>)
    /\ wal.committed # <<>>
    /\ log_file.header.frame_count > 0


\* -------------------------------------------------------------------- C38
\* The call of step that returns in this transition.
LatestStep == injector_steps'[Len(injector_steps')]

\* The statement ended with the code `res`.
EndedWith(res) == LatestStep.stmt = res

\* What the claim says of one step.
StepAsClaimed ==
    injector_steps' # injector_steps =>
        /\ LatestStep.on = "ok" /\ LatestStep.stmt # "none"
        /\ (LatestStep.ret = StepOk(FALSE) /\ writable_schema' = "reset")
               <=> EndedWith("SQLITE_EXIT_REPLICATION")
        /\ (LatestStep.ret = StepOk(TRUE) /\ writable_schema' = "on")
               <=> EndedWith("SQLITE_CONTINUE_REPLICATION")
        /\ \A e \in {"SQLITE_ERROR", "not_sqlite"} : EndedWith(e) => LatestStep.ret = StepErr(e)

\* C38 as stated: every step turns writable_schema on and runs the dummy
\* statement; it returns Ok(false) with writable_schema reset exactly when
\* the hook ended the statement with SQLITE_EXIT_REPLICATION, Ok(true) with
\* writable_schema on exactly when it ended with SQLITE_CONTINUE_REPLICATION,
\* and the error otherwise.
C38_StepByHookCode == [][StepAsClaimed]_vars

\* What one step does, the failures of its two pragma updates included.
StepWithPragmas ==
    injector_steps' # injector_steps =>
        /\ LatestStep.on = "err" <=> LatestStep.stmt = "none"
        /\ LatestStep.on = "err" =>
               LatestStep.ret = StepErr("pragma_update") /\ UNCHANGED writable_schema
        /\ LatestStep.reset # "none" <=> EndedWith("SQLITE_EXIT_REPLICATION")
        /\ (LatestStep.ret = StepOk(FALSE) /\ writable_schema' = "reset")
               <=> (EndedWith("SQLITE_EXIT_REPLICATION") /\ LatestStep.reset = "ok")
        /\ LatestStep.reset = "err" =>
               LatestStep.ret = StepErr("pragma_update") /\ writable_schema' = "on"
        /\ (LatestStep.ret = StepOk(TRUE) /\ writable_schema' = "on")
               <=> EndedWith("SQLITE_CONTINUE_REPLICATION")
        /\ \A e \in {"SQLITE_ERROR", "not_sqlite"} :
               EndedWith(e) => LatestStep.ret = StepErr(e) /\ writable_schema' = "on"
        /\ EndedWith("Ok") <=> LatestStep.ret = StepPanic
        /\ LatestStep.ret = StepOk(FALSE) => writable_schema' = "reset"
        /\ writable_schema' = "reset" => LatestStep.ret.kind \in {"Ok", "Err"}

\* C38, amended: a step whose first pragma update succeeds turns
\* writable_schema on and runs the dummy statement; it returns Ok(false),
\* with writable_schema reset, exactly when the hook ended the statement with
\* SQLITE_EXIT_REPLICATION and the second pragma update succeeded, Ok(true)
\* with writable_schema on exactly when the hook ended it with
\* SQLITE_CONTINUE_REPLICATION, and an error in every other case but that of
\* a statement that succeeds, where it panics; writable_schema is reset
\* whenever Ok(false) is returned.
C38_StepByHookCodeAndPragmas == [][StepWithPragmas]_vars

\* The end of a batch whose reset failed: an error, writable_schema still on,
\* after a batch that was reported done.
C38_Witness ==
    /\ Len(injector_steps) = 3
    /\ injector_steps[2].ret = StepOk(FALSE)
    /\ injector_steps[3].stmt = "SQLITE_EXIT_REPLICATION"
    /\ injector_steps[3].ret = StepErr("pragma_update")
    /\ writable_schema = "on"


\* -------------------------------------------------------------------- C39
\* A program of client `a` is executing on its worker for request q.
Executing(q, a) ==
    request[q].at = "execute_program" /\ request[q].client_id = Some(a)

\* C39: while a program of one client executes, an execute request of another
\* client that has a worker can be dispatched to that worker, and a
\* disconnect request can be handled, without waiting for the program.
C39_NoOrderAcrossClients ==
    \A q \in Requests, a \in ClientIds :
        Executing(q, a) =>
            /\ \A r \in Requests, b \in ClientIds \ {a} :
                   (request[r].at = "idle" /\ clients[b] # None)
                       => ENABLED ProxyService_execute(r, b)
            /\ \A b \in ClientIds :
                   disconnects[b] < MaxDisconnects => ENABLED ProxyService_disconnect(b)


\* -------------------------------------------------------------------- C40
\* C40: the current_frame_no a request returns is at least every value the
\* commits of its own program gave the notifier.
C40_FrameNoCoversOwnCommits ==
    \A r \in Execs :
        execs[r].at = "Ok" =>
            \A v \in execs[r].published : execs[r].current_frame_no[1] >= v

\* A request returned the value of its own second commit while another
\* request, which had committed in between, was still running.
C40_Witness ==
    \E r, q \in Execs :
        /\ execs[r].at = "Ok"
        /\ Cardinality(execs[r].published) = 2
        /\ \A v \in execs[r].published : execs[r].current_frame_no[1] >= v
        /\ execs[r].current_frame_no[1] \in execs[r].published
        /\ execs[q].at = "execute_program"
        /\ execs[q].published # {}

====
